---- MODULE Spec2Model ----
(***************************************************************************)
(* Excelius: the model-provider transport (callClaude), the exploration    *)
(* agent (explore), the code generation agent (codegen) and the            *)
(* orchestrator (runPipeline) of the headless pipeline, and the code       *)
(* generation agent of the browser application (runCodeGenAgent), modelled *)
(* as state machines.  Every await of the JavaScript code is a point where *)
(* one action ends and another one begins.  The sandbox executors          *)
(* (executeInWorker, execute), the HTTP server (POST /api/process) and the  *)
(* file list of the browser client (addFiles, addGeneratedFile) are state  *)
(* machines as well; the verifier (verifyOutput), the tools read_rows,     *)
(* compare_keys and get_column_stats, and pruneMessages are functions,     *)
(* applied to inputs drawn from bounded sets.                              *)
(***************************************************************************)
EXTENDS Integers, Sequences, FiniteSets, TLC

(***************************************************************************)
(* Program constants (src/pipeline/constants.js).                          *)
(***************************************************************************)
MAX_API_RETRIES == 3

RETRY_STATUS_CODES == {429, 529, 502, 503}

MAX_EXPLORATION_TURNS == 15

MAX_CODE_RETRIES == 3

MAX_TOKENS_DEFAULT == 16384

MAX_TOKENS_EXTENDED == 32768

TOOL_RESULT_MAX_CHARS == 4000

(***************************************************************************)
(* Bound of the model: the number of leading turns of a conversation in    *)
(* which the provider may keep it going with any answer; in later turns it *)
(* keeps it going with the plain answer only (it may end it with any).     *)
(***************************************************************************)
FreeTurns == 1

(***************************************************************************)
(* Bound of the model: the number of executions of generated code one      *)
(* after the other.                                                        *)
(***************************************************************************)
MaxExecutions == 2

\* The calls of addFiles of the browser client that may overlap.
MaxUploads == 2

VARIABLES
    aborted,       \* signal.aborted
    tpc,           \* callClaude: "idle", "fetch", "sleep", "ok", "err"
    attempt,       \* callClaude: the loop counter
    maxTokens,     \* callClaude: the maxTokens parameter
    httpResponse,  \* callClaude: the fetch Response of this iteration
    sent,          \* requests posted by the current call
    delays,        \* backoff delays (ms) slept by the current call
    statuses,      \* statuses answered to a direct call, in order
    tOut,          \* what callClaude returned
    tErr,          \* what callClaude threw
    epc,           \* explore: "idle", "await", "returned", "failed"
    turn,          \* explore: the loop counter
    cpc,           \* codegen: "idle", "await", "awaitRetry", "returned", "failed"
    cgAttempt,     \* codegen: the loop counter
    messages,      \* the agent's conversation
    meta,          \* the agent's counters
    response,      \* the agent's current model response
    dispatched,    \* executeTool calls made for the current response
    calls,         \* callClaude invocations of the latest turn / attempt
    result,        \* what the agent returned
    error,         \* what the agent (or runPipeline) threw
    systemPrompt,  \* the agent's system prompt
    ppc,           \* runPipeline: "idle", "exploring", "codegen", "executing",
                   \*   "verifying", "returned", "failed"
    expected,      \* runPipeline: is the expected parameter given
    events,        \* runPipeline: the events handed to onEvent, in order
    run,           \* runPipeline: the result object
    rpc,           \* runCodeGenAgent: "idle", "await", "awaitRetry", "loading",
                   \*   "executing", "unheard", "returned", "failed"
    libs,          \* libsPromise: "none", "loaded"
    executed,      \* the executions settled in this run, in order
    offered,       \* state.outputBuffer
    xenv,          \* the executor in use: "none", "browser" (executeInWorker),
                   \*   "node" (execute)
    xpc,           \* the executor: "idle", "libs", "bridge", "exec", "race",
                   \*   "spinning", "resolved", "rejected"
    xn,            \* executions started so far
    libsPromise,   \* fetchLibraries: "null", "pending", "fulfilled"
    iframe,        \* the execution whose iframe is in the document, or 0
    listening,     \* is onMessage registered on the window
    timeout,       \* the executions whose timeout timer is pending
    heard,         \* is the abort listener of the executor registered
    code,          \* per execution, the state of its generated code
    mailbox,       \* messages posted to the window, not yet delivered
    settled,       \* per execution, how the executor's promise settled
    overdue,       \* the executions whose wall-clock budget has run out
    late,          \* what was done for an execution after its promise settled
    cancelled,     \* the execution pending when the signal was aborted, or 0
    files,         \* the bytes of the source buffers held by the run
    given,         \* per execution, the bytes of the buffers its code holds
    returned,      \* per execution, what its generated code returned
    fnInput,       \* the arguments of the function under examination
    fnOutput,      \* what the function returned for them
    stateFiles,    \* state.files of the browser client
    uploads        \* per call of addFiles, its file list and its position

tvars == <<tpc, attempt, maxTokens, httpResponse, sent, delays, tOut, tErr>>

avars == <<epc, turn, cpc, cgAttempt, messages, meta, response, dispatched,
           calls, result, error, systemPrompt>>

pvars == <<ppc, expected, events, run>>

rvars == <<rpc, libs, executed, offered>>

xvars == <<xenv, xpc, xn, libsPromise, iframe, listening, timeout, heard, code,
           mailbox, settled, overdue, late, cancelled, files, given, returned>>

fvars == <<fnInput, fnOutput>>

bvars == <<stateFiles, uploads>>

vars == <<aborted, tvars, statuses, avars, pvars, rvars, xvars, fvars, bvars>>

(***************************************************************************)
(* Values.                                                                 *)
(***************************************************************************)
Min(a, b) == IF a < b THEN a ELSE b

Last(s) == s[Len(s)]

RECURSIVE SumSeq(_)
SumSeq(s) == IF s = <<>> THEN 0 ELSE s[1] + SumSeq(Tail(s))

NoInput == [of |-> "none"]

NoOutput == [of |-> "none"]

NoError == [kind |-> "none", status |-> 0]

ErrAborted == [kind |-> "Aborted", status |-> 0]

ErrNetwork == [kind |-> "fetch failed", status |-> 0]

ErrAbortError == [kind |-> "AbortError", status |-> 0]

ErrApi(st) == [kind |-> "Claude API error", status |-> st]

ErrStopped == [kind |-> "Exploration agent stopped without submitting a report", status |-> 0]

ErrTurnLimit == [kind |-> "Exploration hit turn limit", status |-> 0]

ErrCodegen == [kind |-> "Code generation failed after max retries", status |-> 0]

NoResponse == [stop_reason |-> "none", content |-> <<>>,
               usage |-> [input_tokens |-> 0, output_tokens |-> 0]]

NoHttp == [status |-> 0, body |-> NoResponse]

NoResult == [kind |-> "none"]

NoBuffer == [kind |-> "none"]

\* verification: null, or the report of verifyOutput.
NoVerification == [done |-> FALSE, pass |-> FALSE]

Verification(pass) == [done |-> TRUE, pass |-> pass]

NoRun == [report |-> <<>>, code |-> NoResult, output |-> NoBuffer,
          verification |-> NoVerification,
          meta |-> [explore |-> <<>>, codegen |-> <<>>]]

TextBlock == [type |-> "text", name |-> "", id |-> <<>>, input |-> <<>>]

ToolUse(name) == [type |-> "tool_use", name |-> name, id |-> <<>>, input |-> <<>>]

(***************************************************************************)
(* The provider.  A response body is a stop reason and a list of content   *)
(* blocks; the tool invocations of the n-th body carry the ids <<n, i>> and *)
(* arguments of their own.                                                 *)
(***************************************************************************)
ExploreContents ==
    { <<TextBlock>>,
      <<ToolUse("read_rows")>>,
      <<ToolUse("read_rows"), ToolUse("list_files")>>,
      <<TextBlock, ToolUse("read_rows")>>,
      <<ToolUse("submit_report")>>,
      <<ToolUse("read_rows"), ToolUse("submit_report")>>,
      <<ToolUse("generate_code")>> }

CodegenContents ==
    { <<TextBlock>>,
      <<ToolUse("read_rows")>>,
      <<ToolUse("generate_code")>>,
      <<TextBlock, ToolUse("generate_code")>>,
      <<ToolUse("generate_code"), TextBlock>> }

Contents == ExploreContents \cup CodegenContents

StopReasons == {"tool_use", "end_turn", "max_tokens"}

HasToolUse(content) == \E i \in 1..Len(content) : content[i].type = "tool_use"

\* What the Messages API can answer: "tool_use" stops on a tool invocation,
\* "end_turn" ends a turn without one, "max_tokens" cuts the output anywhere.
WellFormed(stop, content) ==
    /\ stop = "tool_use" => HasToolUse(content)
    /\ stop = "end_turn" => ~HasToolUse(content)

Stamp(content, n) ==
    [i \in 1..Len(content) |->
        IF content[i].type = "tool_use"
        THEN [content[i] EXCEPT !.id = <<n, i>>, !.input = <<"args", n, i>>]
        ELSE content[i]]

Body(stop, content, n) ==
    [stop_reason |-> stop, content |-> Stamp(content, n),
     usage |-> [input_tokens |-> 1, output_tokens |-> Len(content)]]

Statuses == {200} \cup RETRY_STATUS_CODES \cup {400, 500}

\* The statuses answered to the requests of an agent.
AgentStatuses == {200, 429, 503, 400}

(***************************************************************************)
(* callClaude (src/pipeline/api-client.js).                                *)
(***************************************************************************)
\* A backoff that grows linearly instead of doubling.
Delay_Linear(att) == Min(1000 * (att + 1), 8000)

Delay(att) == Min(1000 * (2 ^ att), 8000)

\* The retry budget counted one short.
ShouldRetry_OneShort(st, att) ==
    st \in RETRY_STATUS_CODES /\ att < MAX_API_RETRIES - 1

\* Every status from 429 up taken for a transient one.
ShouldRetry_ServerErrors(st, att) == st >= 429 /\ att < MAX_API_RETRIES

ShouldRetry(st, att) == st \in RETRY_STATUS_CODES /\ att < MAX_API_RETRIES

\* The check at the head of the loop left out.
SignalAborted_Unchecked == FALSE

\* signal?.aborted
SignalAborted == aborted

\* One pass of the loop header up to the await of fetch: the abort check,
\* then the request is posted.
Iterate(att, posted) ==
    /\ attempt' = att
    /\ IF SignalAborted
       THEN /\ tpc' = "err"
            /\ tErr' = ErrAborted
            /\ sent' = posted
       ELSE /\ tpc' = "fetch"
            /\ tErr' = NoError
            /\ sent' = posted + 1

\* A caller enters callClaude; the code runs on to the first await.
Invoke(mt) ==
    /\ maxTokens' = mt
    /\ httpResponse' = NoHttp
    /\ delays' = <<>>
    /\ tOut' = NoResponse
    /\ Iterate(0, 0)

\* fetch resolves with a response of the provider; once the signal given to
\* it is aborted it can only reject.
Fetched(st, body) ==
    /\ tpc = "fetch"
    /\ ~aborted
    /\ httpResponse' = [status |-> st, body |-> IF st = 200 THEN body ELSE NoResponse]
    /\ IF st = 200
       THEN /\ tpc' = "ok"
            /\ tOut' = body
            /\ UNCHANGED <<tErr, delays>>
       ELSE IF ShouldRetry(st, attempt)
       THEN /\ tpc' = "sleep"
            /\ delays' = Append(delays, Delay(attempt))
            /\ UNCHANGED <<tOut, tErr>>
       ELSE /\ tpc' = "err"
            /\ tErr' = ErrApi(st)
            /\ UNCHANGED <<tOut, delays>>
    /\ UNCHANGED <<attempt, maxTokens, sent>>

\* fetch rejects: the network failed.
FetchRejects ==
    /\ tpc = "fetch"
    /\ tpc' = "err"
    /\ tErr' = ErrNetwork
    /\ UNCHANGED <<attempt, maxTokens, httpResponse, sent, delays, tOut>>
    /\ UNCHANGED <<aborted, statuses, avars, pvars, rvars,
                   xvars, fvars, bvars>>

\* The backoff timer fires (it is not tied to the signal): next iteration.
BackoffElapsed ==
    /\ tpc = "sleep"
    /\ Iterate(attempt + 1, sent)
    /\ UNCHANGED <<maxTokens, httpResponse, delays, tOut>>
    /\ UNCHANGED <<aborted, statuses, avars, pvars, rvars,
                   xvars, fvars, bvars>>

\* Nothing has been called yet.
(***************************************************************************)
(* The sandbox: executeInWorker (app.js) and execute (execute.js).         *)
(***************************************************************************)
Executions == 1..MaxExecutions

\* The bytes of a buffer: as uploaded, or written over by generated code.
Original == 0

Written == 1

\* Generated code that is on a thread: suspended in an await or computing.
Active == {"running", "spinning"}

\* A message posted to the parent window by the bridge of an iframe.
Message(i, type, message) == [source |-> i, type |-> type, message |-> message]

\* Removing the iframe from the document left out.
Detached_Kept(c, i) == c

\* iframe.parentNode.removeChild(iframe): the browsing context of the iframe
\* is discarded and the worker it owns with it.
Detached(c, i) ==
    [j \in DOMAIN c |-> IF j = i /\ c[j] \in Active THEN "terminated" ELSE c[j]]

\* cleanup() of the execution i.
cleanup(i) ==
    /\ timeout' = timeout \ {i}
    /\ listening' = FALSE
    /\ iframe' = 0
    /\ code' = Detached(code, i)

\* The event loop of the node process is held by generated code that does
\* not give it back.
Blocked == \E i \in Executions : xenv = "node" /\ code[i] = "spinning"

NotStarted ==
    /\ tpc = "idle"
    /\ epc = "idle"
    /\ cpc = "idle"
    /\ ppc = "idle"
    /\ rpc = "idle"
    /\ xpc = "idle"

\* The program is suspended in an await that only an event can end: a fetch,
\* a backoff timer, a sandbox execution, a verification.
Suspended ==
    \/ tpc \in {"fetch", "sleep"}
    \/ ppc \in {"executing", "verifying"}
    \/ rpc \in {"await", "awaitRetry", "loading", "executing", "unheard"}
    \/ xpc \in {"libs", "bridge", "exec", "race"} /\ ~Blocked

\* The owner of the AbortController cancels, before the call or while the
\* program is suspended.  abort() runs the listeners of the signal: a
\* pending fetch rejects, and so does the sandbox promise that listens;
\* nothing else is told.
Abort ==
    /\ ~aborted
    /\ NotStarted \/ Suspended
    /\ aborted' = TRUE
    /\ IF tpc = "fetch"
       THEN /\ tpc' = "err"
            /\ tErr' = ErrAborted
            /\ UNCHANGED <<attempt, maxTokens, httpResponse, sent, delays, tOut>>
       ELSE UNCHANGED tvars
    /\ IF rpc = "executing"
       THEN /\ rpc' = "failed"
            /\ error' = ErrAbortError
       ELSE UNCHANGED <<rpc, error>>
    /\ cancelled' = IF xpc \in {"libs", "bridge", "exec", "race"} THEN xn ELSE 0
    /\ IF heard /\ xpc \in {"bridge", "exec"}
       THEN /\ cleanup(iframe)
            /\ heard' = FALSE
            /\ settled' = [settled EXCEPT ![iframe] = "abort"]
            /\ xpc' = "rejected"
       ELSE UNCHANGED <<timeout, listening, iframe, code, heard, settled, xpc>>
    /\ UNCHANGED <<statuses, epc, turn, cpc, cgAttempt, messages, meta, response,
                   dispatched, calls, result, systemPrompt, pvars, libs,
                   executed, offered, xenv, xn, libsPromise, mailbox, overdue,
                   late, files, given, returned, fvars, bvars>>

(***************************************************************************)
(* callClaude called on its own.                                           *)
(***************************************************************************)
NoAgent ==
    epc = "idle" /\ cpc = "idle" /\ ppc = "idle" /\ rpc = "idle" /\ xpc = "idle"

DirectCall ==
    /\ NoAgent
    /\ tpc = "idle"
    /\ \E mt \in {MAX_TOKENS_DEFAULT, MAX_TOKENS_EXTENDED} : Invoke(mt)
    /\ UNCHANGED <<aborted, statuses, avars, pvars, rvars,
                   xvars, fvars, bvars>>

DirectAnswer ==
    /\ NoAgent
    /\ \E st \in Statuses, stop \in StopReasons, content \in Contents :
          /\ WellFormed(stop, content)
          /\ Fetched(st, Body(stop, content, 1))
          /\ statuses' = Append(statuses, st)
    /\ UNCHANGED <<aborted, avars, pvars, rvars,
                   xvars, fvars, bvars>>

InitProgram ==
    /\ aborted = FALSE
    /\ tpc = "idle"
    /\ attempt = 0
    /\ maxTokens = MAX_TOKENS_DEFAULT
    /\ httpResponse = NoHttp
    /\ sent = 0
    /\ delays = <<>>
    /\ statuses = <<>>
    /\ tOut = NoResponse
    /\ tErr = NoError
    /\ epc = "idle"
    /\ turn = 0
    /\ cpc = "idle"
    /\ cgAttempt = 0
    /\ messages = <<>>
    /\ meta = [turns |-> 0, attempts |-> 0, inputTokens |-> 0, outputTokens |-> 0]
    /\ response = NoResponse
    /\ dispatched = <<>>
    /\ calls = <<>>
    /\ result = NoResult
    /\ error = NoError
    /\ systemPrompt = <<>>
    /\ ppc = "idle"
    /\ expected = FALSE
    /\ events = <<>>
    /\ run = NoRun
    /\ rpc = "idle"
    /\ libs = "none"
    /\ executed = <<>>
    /\ offered = NoBuffer
    /\ xenv = "none"
    /\ xpc = "idle"
    /\ xn = 0
    /\ libsPromise = "null"
    /\ iframe = 0
    /\ listening = FALSE
    /\ timeout = {}
    /\ heard = FALSE
    /\ code = [i \in Executions |-> "none"]
    /\ mailbox = <<>>
    /\ settled = [i \in Executions |-> "none"]
    /\ overdue = {}
    /\ late = {}
    /\ cancelled = 0
    /\ files = Original
    /\ given = [i \in Executions |-> Original]
    /\ returned = [i \in Executions |-> "none"]
    /\ stateFiles = <<>>
    /\ uploads = [c \in 1..MaxUploads |-> [pc |-> "idle", list |-> <<>>, idx |-> 0]]

Init ==
    /\ InitProgram
    /\ fnInput = NoInput
    /\ fnOutput = NoOutput

NextTransport ==
    \/ DirectCall
    \/ DirectAnswer
    \/ FetchRejects
    \/ BackoffElapsed
    \/ Abort

SpecTransport == Init /\ [][NextTransport]_vars

(***************************************************************************)
(* executeTool (src/pipeline/tools.js) as the agent loop sees it: the      *)
(* result depends on the tool name and the arguments alone.  A result is   *)
(* its JSON text, kept as what it reports and how many characters it has.  *)
(***************************************************************************)
executeTool(name, input) ==
    CASE name = "list_files" -> [of |-> <<name, input>>, error |-> "", chars |-> 300]
      [] name = "read_rows" -> [of |-> <<name, input>>, error |-> "", chars |-> 6000]
      [] name = "submit_report" ->
            [of |-> <<name, input>>,
             error |-> "submit_report is handled by the agent loop", chars |-> 60]
      [] name = "generate_code" ->
            [of |-> <<name, input>>,
             error |-> "generate_code is handled by the agent loop", chars |-> 60]
      [] OTHER -> [of |-> <<name, input>>, error |-> "Unknown tool", chars |-> 40]

\* resultStr.slice(0, TOOL_RESULT_MAX_CHARS) + '\n... (truncated)'
Truncated(res) ==
    IF res.chars > TOOL_RESULT_MAX_CHARS
    THEN [res EXCEPT !.chars = TOOL_RESULT_MAX_CHARS + 16]
    ELSE res

(***************************************************************************)
(* explore (src/pipeline/explore.js).                                      *)
(***************************************************************************)
UserTurn(content) == [role |-> "user", content |-> content]

AssistantTurn(content) == [role |-> "assistant", content |-> content]

IsSubmit(block) == block.type = "tool_use" /\ block.name = "submit_report"

\* Only the first block looked at.
HasSubmit_FirstBlock(content) == content # <<>> /\ IsSubmit(content[1])

HasSubmit(content) == \E i \in 1..Len(content) : IsSubmit(content[i])

\* The arguments of the first submit_report block.
SubmittedReport(content) ==
    LET i == CHOOSE j \in 1..Len(content) :
                 /\ IsSubmit(content[j])
                 /\ \A k \in 1..(j - 1) : ~IsSubmit(content[k])
    IN  content[i].input

\* The blocks the second loop does not skip.
ToolCalls(content) ==
    SelectSeq(content, LAMBDA b : ~(b.type # "tool_use" \/ b.name = "submit_report"))

ToolResult(block) ==
    [type |-> "tool_result", tool_use_id |-> block.id,
     content |-> Truncated(executeTool(block.name, block.input))]

\* The results pushed last first.
ToolResults_Reversed(content) ==
    LET tc == ToolCalls(content)
    IN  [i \in 1..Len(tc) |-> ToolResult(tc[Len(tc) + 1 - i])]

ToolResults(content) ==
    LET tc == ToolCalls(content) IN [i \in 1..Len(tc) |-> ToolResult(tc[i])]

\* The executeTool calls of one response, in the order they are made.
Dispatch(content) ==
    LET tc == ToolCalls(content)
    IN  [i \in 1..Len(tc) |-> [name |-> tc[i].name, input |-> tc[i].input,
                               id |-> tc[i].id]]

\* toolNames: the names of the dispatched invocations, in order.
ToolNames(content) ==
    LET tc == ToolCalls(content) IN [i \in 1..Len(tc) |-> tc[i].name]

\* The loop bound off by one.
MoreTurns_Inclusive(t) == t <= MAX_EXPLORATION_TURNS

MoreTurns(t) == t < MAX_EXPLORATION_TURNS

\* Only a finished turn taken for a stop.
StopsWithoutTool_EndTurnOnly(resp) == resp.stop_reason = "end_turn"

StopsWithoutTool(resp) == resp.stop_reason # "tool_use"

Replied(cs, resp) == [cs EXCEPT ![Len(cs)].reply = resp]

\* The frame of a finished callClaude is gone.
Settled ==
    /\ tpc' = "idle"
    /\ attempt' = 0
    /\ maxTokens' = MAX_TOKENS_DEFAULT
    /\ httpResponse' = NoHttp
    /\ sent' = 0
    /\ delays' = <<>>
    /\ tOut' = NoResponse
    /\ tErr' = NoError

Request(sys, mt, msgs) ==
    [system |-> sys, max_tokens |-> mt, messages |-> msgs, reply |-> NoResponse]

\* onEvent?.(e), onTurn?.(e), onAttempt?.(e): runPipeline supplies the callback.
Notify(evs, e) == IF ppc = "idle" THEN evs ELSE Append(evs, e)

Event(phase, status, info) == [phase |-> phase, status |-> status, info |-> info]

AddUsage(m, resp) ==
    [m EXCEPT !.inputTokens = @ + resp.usage.input_tokens,
              !.outputTokens = @ + resp.usage.output_tokens]

\* The head of the for loop with turn = t, up to the await of callClaude.
ExploreTurn(t, msgs, m, cs) ==
    /\ turn' = t
    /\ messages' = msgs
    /\ result' = NoResult
    /\ IF ~MoreTurns(t)
       THEN /\ epc' = "failed"
            /\ error' = ErrTurnLimit
            /\ meta' = m
            /\ calls' = cs
            /\ Settled
       ELSE IF aborted
       THEN /\ epc' = "failed"
            /\ error' = ErrAborted
            /\ meta' = m
            /\ calls' = cs
            /\ Settled
       ELSE /\ epc' = "await"
            /\ error' = NoError
            /\ meta' = [m EXCEPT !.turns = t + 1]
            /\ calls' = <<Request("EXPLORATION_PROMPT", MAX_TOKENS_DEFAULT, msgs)>>
            /\ Invoke(MAX_TOKENS_DEFAULT)

\* explore is called: the conversation is set up and the first turn starts.
ExploreCall ==
    /\ epc = "idle"
    /\ cpc = "idle"
    /\ tpc = "idle"
    /\ ExploreTurn(0, <<UserTurn(<<TextBlock>>)>>,
                   [turns |-> 0, attempts |-> 0, inputTokens |-> 0, outputTokens |-> 0],
                   <<>>)
    /\ UNCHANGED <<aborted, statuses, cpc, cgAttempt, response, dispatched,
                   systemPrompt, pvars, rvars,
                   xvars, fvars, bvars>>

\* callClaude returned: the rest of the loop body, then the next loop head.
ExploreResume ==
    /\ epc = "await"
    /\ tpc = "ok"
    /\ LET resp == tOut
           m1 == AddUsage(meta, resp)
           msgs1 == Append(messages, AssistantTurn(resp.content))
           results == ToolResults(resp.content)
       IN  /\ response' = resp
           /\ IF HasSubmit(resp.content)
              THEN /\ epc' = "returned"
                   /\ result' = [kind |-> "exploration",
                                 report |-> SubmittedReport(resp.content)]
                   /\ messages' = msgs1
                   /\ meta' = m1
                   /\ dispatched' = <<>>
                   /\ calls' = Replied(calls, resp)
                   /\ events' = Notify(events,
                                   Event("exploring", "none",
                                         [turn |-> turn + 1,
                                          tools |-> <<"submit_report">>,
                                          done |-> TRUE]))
                   /\ Settled
                   /\ UNCHANGED <<turn, error>>
              ELSE IF StopsWithoutTool(resp)
              THEN /\ epc' = "failed"
                   /\ error' = ErrStopped
                   /\ messages' = msgs1
                   /\ meta' = m1
                   /\ dispatched' = <<>>
                   /\ calls' = Replied(calls, resp)
                   /\ Settled
                   /\ UNCHANGED <<turn, result, events>>
              ELSE /\ dispatched' = Dispatch(resp.content)
                   /\ events' = Notify(events,
                                   Event("exploring", "none",
                                         [turn |-> turn + 1,
                                          tools |-> ToolNames(resp.content),
                                          done |-> FALSE]))
                   /\ ExploreTurn(turn + 1,
                                  IF Len(results) > 0
                                  THEN Append(msgs1, UserTurn(results))
                                  ELSE msgs1,
                                  m1, Replied(calls, resp))
    /\ UNCHANGED <<aborted, statuses, cpc, cgAttempt, systemPrompt,
                   ppc, expected, run, rvars,
                   xvars, fvars, bvars>>

\* callClaude threw: explore does not catch.
ExploreRethrow ==
    /\ epc = "await"
    /\ tpc = "err"
    /\ epc' = "failed"
    /\ error' = tErr
    /\ Settled
    /\ UNCHANGED <<aborted, statuses, turn, cpc, cgAttempt, messages, meta,
                   response, dispatched, calls, result, systemPrompt,
                   pvars, rvars,
                   xvars, fvars, bvars>>

\* The answer that keeps the exploration going: one read_rows invocation.
PlainExplore(stop, content) ==
    stop = "tool_use" /\ content = <<ToolUse("read_rows")>>

ContinuesExplore(stop, content) == stop = "tool_use" /\ ~HasSubmit(content)

BodyNumber == 2 * Len(messages) + Len(calls)

\* The provider answers the request explore is waiting on.  Within a run of
\* the pipeline it lets the exploration go on in the leading turns only, and
\* with the plain answer.
ExploreAnswer ==
    /\ epc = "await"
    /\ \E st \in AgentStatuses, stop \in StopReasons, content \in ExploreContents :
          /\ WellFormed(stop, content)
          /\ (st = 200 /\ ContinuesExplore(stop, content)
                 /\ (turn >= FreeTurns \/ ppc # "idle"))
                => PlainExplore(stop, content) /\ (turn < FreeTurns \/ ppc = "idle")
          /\ Fetched(st, Body(stop, content, BodyNumber))
    /\ UNCHANGED <<aborted, statuses, avars, pvars, rvars,
                   xvars, fvars, bvars>>

NextExplore ==
    \/ ExploreCall
    \/ ExploreAnswer
    \/ FetchRejects
    \/ BackoffElapsed
    \/ Abort
    \/ ExploreResume
    \/ ExploreRethrow

SpecExplore == Init /\ [][NextExplore]_vars

(***************************************************************************)
(* codegen (src/pipeline/codegen.js).                                      *)
(***************************************************************************)
IsCode(block) == block.type = "tool_use" /\ block.name = "generate_code"

\* response.content.find(b => ...): the first generate_code block, if any.
HasCode(content) == \E i \in 1..Len(content) : IsCode(content[i])

CodeBlock(content) ==
    content[CHOOSE j \in 1..Len(content) :
                /\ IsCode(content[j])
                /\ \A k \in 1..(j - 1) : ~IsCode(content[k])]

\* The loop bound off by one.
MoreAttempts_Inclusive(a) == a <= MAX_CODE_RETRIES

MoreAttempts(a) == a < MAX_CODE_RETRIES

\* The last block not looked at.
NeedsRetry_AnyMaxTokens(resp) == resp.stop_reason = "max_tokens"

\* Truncated in the middle of a tool call.
NeedsRetry(resp) ==
    /\ resp.stop_reason = "max_tokens"
    /\ resp.content # <<>>
    /\ Last(resp.content).type = "tool_use"

buildCodeGenPrompt(report) == <<"CODEGEN_TEMPLATE", report>>

\* A conversation that goes on from the exploration's one.
FirstMessages_Inherited(explored) == explored

\* The conversation codegen starts from: the task, whatever was explored.
FirstMessages(explored) == <<UserTurn(<<TextBlock>>)>>

\* The head of the for loop with attempt = a, up to the await of callClaude.
CodegenAttempt(a, msgs, m, cs, evs) ==
    /\ cgAttempt' = a
    /\ messages' = msgs
    /\ result' = NoResult
    /\ IF ~MoreAttempts(a)
       THEN /\ cpc' = "failed"
            /\ error' = ErrCodegen
            /\ meta' = m
            /\ calls' = cs
            /\ events' = evs
            /\ Settled
       ELSE IF aborted
       THEN /\ cpc' = "failed"
            /\ error' = ErrAborted
            /\ meta' = m
            /\ calls' = cs
            /\ events' = evs
            /\ Settled
       ELSE /\ cpc' = "await"
            /\ error' = NoError
            /\ meta' = [m EXCEPT !.attempts = a + 1]
            /\ calls' = <<Request(systemPrompt', MAX_TOKENS_DEFAULT, msgs)>>
            /\ events' = Notify(evs, Event("codegen", "none", [attempt |-> a + 1]))
            /\ Invoke(MAX_TOKENS_DEFAULT)

\* The reports codegen is called with when it is called on its own.
DirectReports == {<<"args", 3, 1>>, <<"args", 5, 2>>}

\* codegen is called: the conversation is set up and the first attempt starts.
CodegenCall ==
    /\ epc = "idle"
    /\ cpc = "idle"
    /\ tpc = "idle"
    /\ \E report \in DirectReports : systemPrompt' = buildCodeGenPrompt(report)
    /\ CodegenAttempt(0, FirstMessages(messages),
                      [turns |-> 0, attempts |-> 0, inputTokens |-> 0, outputTokens |-> 0],
                      <<>>, events)
    /\ UNCHANGED <<aborted, statuses, epc, turn, response, dispatched,
                   ppc, expected, run, rvars,
                   xvars, fvars, bvars>>

\* The first callClaude of an attempt returned.
CodegenResume ==
    /\ cpc = "await"
    /\ tpc = "ok"
    /\ systemPrompt' = systemPrompt
    /\ LET resp == tOut
       IN  IF NeedsRetry(resp)
           THEN /\ cpc' = "awaitRetry"
                /\ response' = resp
                /\ calls' = Append(Replied(calls, resp),
                                   Request(systemPrompt, MAX_TOKENS_EXTENDED, messages))
                /\ Invoke(MAX_TOKENS_EXTENDED)
                /\ UNCHANGED <<cgAttempt, messages, meta, result, error, events>>
           ELSE /\ response' = resp
                /\ IF HasCode(resp.content)
                   THEN /\ cpc' = "returned"
                        /\ result' = [kind |-> "code",
                                      code |-> CodeBlock(resp.content).input]
                        /\ messages' = Append(messages, AssistantTurn(resp.content))
                        /\ meta' = AddUsage(meta, resp)
                        /\ calls' = Replied(calls, resp)
                        /\ Settled
                        /\ UNCHANGED <<cgAttempt, error, events>>
                   ELSE CodegenAttempt(cgAttempt + 1,
                                       Append(messages, AssistantTurn(resp.content)),
                                       AddUsage(meta, resp), Replied(calls, resp),
                                       events)
    /\ UNCHANGED <<aborted, statuses, epc, turn, dispatched,
                   ppc, expected, run, rvars,
                   xvars, fvars, bvars>>

\* The callClaude of the retry returned: its response is the attempt's one.
CodegenResumeRetry ==
    /\ cpc = "awaitRetry"
    /\ tpc = "ok"
    /\ systemPrompt' = systemPrompt
    /\ LET resp == tOut
       IN  /\ response' = resp
           /\ IF HasCode(resp.content)
              THEN /\ cpc' = "returned"
                   /\ result' = [kind |-> "code",
                                 code |-> CodeBlock(resp.content).input]
                   /\ messages' = Append(messages, AssistantTurn(resp.content))
                   /\ meta' = AddUsage(meta, resp)
                   /\ calls' = Replied(calls, resp)
                   /\ Settled
                   /\ UNCHANGED <<cgAttempt, error, events>>
              ELSE CodegenAttempt(cgAttempt + 1,
                                  Append(messages, AssistantTurn(resp.content)),
                                  AddUsage(meta, resp), Replied(calls, resp),
                                  events)
    /\ UNCHANGED <<aborted, statuses, epc, turn, dispatched,
                   ppc, expected, run, rvars,
                   xvars, fvars, bvars>>

\* callClaude threw: codegen does not catch.
CodegenRethrow ==
    /\ cpc \in {"await", "awaitRetry"}
    /\ tpc = "err"
    /\ cpc' = "failed"
    /\ error' = tErr
    /\ Settled
    /\ UNCHANGED <<aborted, statuses, epc, turn, cgAttempt, messages, meta,
                   response, dispatched, calls, result, systemPrompt,
                   pvars, rvars,
                   xvars, fvars, bvars>>

\* The answer that uses up an attempt: text and no code.
PlainCodegen(stop, content) == stop = "end_turn" /\ content = <<TextBlock>>

\* A body cut at max_tokens inside a tool invocation.
CutMidTool(stop, content) ==
    stop = "max_tokens" /\ Last(content).type = "tool_use"

\* The provider answers the request codegen is waiting on.
CodegenAnswer ==
    /\ cpc \in {"await", "awaitRetry"}
    /\ \E st \in AgentStatuses, stop \in StopReasons, content \in CodegenContents :
          /\ WellFormed(stop, content)
          /\ (st = 200 /\ cgAttempt >= FreeTurns
                 /\ (~HasCode(content) \/ CutMidTool(stop, content)))
                => PlainCodegen(stop, content)
          /\ Fetched(st, Body(stop, content, BodyNumber))
    /\ UNCHANGED <<aborted, statuses, avars, pvars, rvars,
                   xvars, fvars, bvars>>

NextCodegen ==
    \/ CodegenCall
    \/ CodegenAnswer
    \/ FetchRejects
    \/ BackoffElapsed
    \/ Abort
    \/ CodegenResume
    \/ CodegenResumeRetry
    \/ CodegenRethrow

SpecCodegen == Init /\ [][NextCodegen]_vars

(***************************************************************************)
(* What generated code can hand back: a buffer that holds a workbook (its  *)
(* first sheet as rows of cells, numbers and text), a buffer that is no    *)
(* workbook, or nothing.                                                   *)
(***************************************************************************)
Num(v) == [type |-> "number", v |-> v]

Text == [type |-> "string", v |-> 0]

Sheet(rows) == [kind |-> "buffer", parses |-> TRUE, rows |-> rows]

Header == <<Text, Text>>

GoodSheet == Sheet(<<Header, <<Text, Num(7)>>, <<Text, Num(7)>>, <<Text, Num(7)>>>>)

ZeroSheet == Sheet(<<Header, <<Text, Num(0)>>, <<Text, Num(0)>>, <<Text, Num(0)>>>>)

ZeroColumnSheet ==
    Sheet(<<Header, <<Num(7), Num(0)>>, <<Num(7), Num(0)>>, <<Num(7), Num(0)>>>>)

ShortZeroSheet == Sheet(<<Header, <<Text, Num(0)>>>>)

NoSheet == [kind |-> "buffer", parses |-> FALSE, rows |-> <<>>]

Buffers == {GoodSheet, ZeroSheet, ZeroColumnSheet, ShortZeroSheet, NoSheet}

ErrExecution(msg) == [kind |-> msg, status |-> 0]

(***************************************************************************)
(* execute (src/pipeline/execute.js): the generated code races a timer.    *)
(***************************************************************************)
ExecuteErrors ==
    { ErrExecution("Execution timed out (30s)"),
      ErrExecution("Code must return { buffer, filename }"),
      ErrExecution("generated code threw") }

(***************************************************************************)
(* runPipeline (src/pipeline/index.js).                                    *)
(***************************************************************************)
\* The newest event put first.
Emit_Prepended(evs, phase, status, info) == <<Event(phase, status, info)>> \o evs

Emit(evs, phase, status, info) == Append(evs, Event(phase, status, info))

\* runPipeline is called: the first event, then explore up to its first await.
PipelineCall ==
    /\ NotStarted
    /\ ppc' = "exploring"
    /\ \E exp \in BOOLEAN : expected' = exp
    /\ events' = Emit(<<>>, "exploring", "started", <<>>)
    /\ run' = NoRun
    /\ ExploreTurn(0, <<UserTurn(<<TextBlock>>)>>,
                   [turns |-> 0, attempts |-> 0, inputTokens |-> 0, outputTokens |-> 0],
                   <<>>)
    /\ UNCHANGED <<aborted, statuses, cpc, cgAttempt, response, dispatched,
                   systemPrompt, rvars,
                   xvars, fvars, bvars>>

\* explore returned: the report is kept, codegen is called with it.
PipelineExplored ==
    /\ ppc = "exploring"
    /\ epc = "returned"
    /\ ppc' = "codegen"
    /\ run' = [run EXCEPT !.report = result.report, !.meta.explore = meta]
    /\ systemPrompt' = buildCodeGenPrompt(result.report)
    /\ CodegenAttempt(0, FirstMessages(messages),
                      [turns |-> 0, attempts |-> 0, inputTokens |-> 0, outputTokens |-> 0],
                      <<>>,
                      Emit(Emit(events, "exploring", "complete", [turns |-> meta.turns]),
                           "codegen", "started", <<>>))
    /\ UNCHANGED <<aborted, statuses, epc, turn, response, dispatched,
                   expected, rvars,
                   xvars, fvars, bvars>>

\* codegen returned: the code is kept, execute is called with it and the files.
PipelineGenerated ==
    /\ ppc = "codegen"
    /\ cpc = "returned"
    /\ ppc' = "executing"
    /\ run' = [run EXCEPT !.code = result, !.meta.codegen = meta]
    /\ events' = Emit(Emit(events, "codegen", "complete", [attempts |-> meta.attempts]),
                      "executing", "started", <<>>)
    /\ UNCHANGED <<aborted, tvars, statuses, avars, expected, rvars,
                   xvars, fvars, bvars>>

\* explore or codegen threw: runPipeline does not catch.
PipelineRethrow ==
    /\ \/ ppc = "exploring" /\ epc = "failed"
       \/ ppc = "codegen" /\ cpc = "failed"
    /\ ppc' = "failed"
    /\ UNCHANGED <<aborted, tvars, statuses, avars, expected, events, run, rvars,
                   xvars, fvars, bvars>>

\* The race of execute is settled: a buffer, or an error.
ExecuteSettles ==
    /\ ppc = "executing"
    /\ \/ \E out \in Buffers :
             /\ run' = [run EXCEPT !.output = out]
             /\ IF expected
                THEN /\ ppc' = "verifying"
                     /\ events' = Emit(Emit(events, "executing", "complete",
                                            [size |-> Len(out.rows)]),
                                       "verifying", "started", <<>>)
                ELSE /\ ppc' = "returned"
                     /\ events' = Emit(events, "executing", "complete",
                                       [size |-> Len(out.rows)])
             /\ error' = error
       \/ \E err \in ExecuteErrors :
             /\ ppc' = "failed"
             /\ error' = err
             /\ UNCHANGED <<events, run>>
    /\ UNCHANGED <<aborted, tvars, statuses, epc, turn, cpc, cgAttempt, messages,
                   meta, response, dispatched, calls, result, systemPrompt,
                   expected, rvars,
                   xvars, fvars, bvars>>

\* verifyOutput resolves: a buffer that does not parse never passes.
VerifySettles ==
    /\ ppc = "verifying"
    /\ \E pass \in BOOLEAN :
          /\ ~run.output.parses => ~pass
          /\ run' = [run EXCEPT !.verification = Verification(pass)]
          /\ events' = Emit(events, "verifying", "complete", [pass |-> pass])
    /\ ppc' = "returned"
    /\ UNCHANGED <<aborted, tvars, statuses, avars, expected, rvars,
                   xvars, fvars, bvars>>

NextPipeline ==
    \/ PipelineCall
    \/ ExploreAnswer
    \/ ExploreResume
    \/ ExploreRethrow
    \/ PipelineExplored
    \/ CodegenAnswer
    \/ CodegenResume
    \/ CodegenResumeRetry
    \/ CodegenRethrow
    \/ PipelineGenerated
    \/ ExecuteSettles
    \/ VerifySettles
    \/ PipelineRethrow
    \/ FetchRejects
    \/ BackoffElapsed
    \/ Abort

SpecPipeline == Init /\ [][NextPipeline]_vars

(***************************************************************************)
(* executeGeneratedCode (app.js): the sandbox outcome of the code of the   *)
(* tool invocation id, turned into what the agent loop is told.            *)
(***************************************************************************)
WorkerErrors ==
    { ErrExecution("Worker timed out (120s)"),
      ErrExecution("generated code threw") }

ErrLibraries == ErrExecution("Failed to load library")

ErrNoCode == [kind |-> "Code agent finished without calling generate_code", status |-> 0]

Numbers(row) == SelectSeq(row, LAMBDA v : v.type = "number")

\* The rows the all-zeros check looks at: up to 5 rows from the third one on
\* (from the last one when there are fewer than three).
Sampled(rows) ==
    LET dataStart == Min(2, Len(rows) - 1)
    IN  SubSeq(rows, dataStart + 1, Min(dataStart + 5, Len(rows)))

\* Any zero among the numbers of a row taken for a row of zeros.
AllZeros_AnyZero(rows) ==
    /\ Len(Sampled(rows)) > 0
    /\ \A i \in 1..Len(Sampled(rows)) :
           \E k \in 1..Len(Numbers(Sampled(rows)[i])) : Numbers(Sampled(rows)[i])[k].v = 0

AllZeros(rows) ==
    /\ Len(Sampled(rows)) > 0
    /\ \A i \in 1..Len(Sampled(rows)) :
           LET nums == Numbers(Sampled(rows)[i])
           IN  /\ Len(nums) > 0
               /\ \A k \in 1..Len(nums) : nums[k].v = 0

Diagnostic(id, about, isError) ==
    [type |-> "tool_result", tool_use_id |-> id, content |-> about,
     is_error |-> isError]

\* The AbortError of the sandbox is rethrown and never gets here.
ExecutedCode(id, out) ==
    IF out.kind # "buffer"
    THEN [action |-> "retry",
          toolResult |-> Diagnostic(id, <<"Execution error", out.kind>>, TRUE),
          buffer |-> NoBuffer]
    ELSE IF out.parses /\ Len(out.rows) > 2 /\ AllZeros(out.rows)
    THEN [action |-> "retry",
          toolResult |-> Diagnostic(id, <<"ALL ZEROS", Sampled(out.rows)>>, FALSE),
          buffer |-> out]
    ELSE [action |-> "success",
          toolResult |-> Diagnostic(id, <<"Success">>, FALSE),
          buffer |-> NoBuffer]

(***************************************************************************)
(* runCodeGenAgent (app.js).  callClaudeWithTools is one await of it: it   *)
(* resolves with a response body or rejects.                               *)
(***************************************************************************)
\* The diagnostic put in the place of the last turn.
Fed_Overwriting(msgs, diagnostic) ==
    [msgs EXCEPT ![Len(msgs)] = UserTurn(<<diagnostic>>)]

\* messages.push({ role: 'user', content: [gen.toolResult] })
Fed(msgs, diagnostic) == Append(msgs, UserTurn(<<diagnostic>>))

LastAttempt(a) == a = MAX_CODE_RETRIES - 1

\* The head of the for loop with attempt = a, up to the await of
\* callClaudeWithTools.
RepairAttempt(a, msgs, cs) ==
    /\ cgAttempt' = a
    /\ messages' = msgs
    /\ IF ~MoreAttempts(a)
       THEN /\ rpc' = "failed"
            /\ error' = ErrCodegen
            /\ calls' = cs
       ELSE IF aborted
       THEN /\ rpc' = "failed"
            /\ error' = ErrAbortError
            /\ calls' = cs
       ELSE /\ rpc' = "await"
            /\ error' = NoError
            /\ calls' = <<Request(systemPrompt', MAX_TOKENS_DEFAULT, msgs)>>

RepairCall ==
    /\ NotStarted
    /\ \E report \in DirectReports : systemPrompt' = buildCodeGenPrompt(report)
    /\ RepairAttempt(0, FirstMessages(messages), <<>>)
    /\ UNCHANGED <<aborted, tvars, statuses, epc, turn, cpc, meta, response,
                   dispatched, result, pvars, libs, executed, offered,
                   xvars, fvars, bvars>>

\* The attempt's response is in: it goes into the conversation; without code
\* the loop goes on or gives up, with code executeGeneratedCode is entered.
Respond(resp) ==
    LET msgs1 == Append(messages, AssistantTurn(resp.content))
    IN  /\ response' = resp
        /\ IF ~HasCode(resp.content)
           THEN IF resp.stop_reason # "tool_use"
                THEN /\ rpc' = "failed"
                     /\ error' = ErrNoCode
                     /\ messages' = msgs1
                     /\ calls' = Replied(calls, resp)
                     /\ UNCHANGED cgAttempt
                ELSE RepairAttempt(cgAttempt + 1, msgs1, Replied(calls, resp))
           ELSE /\ rpc' = IF libs = "loaded" THEN "executing" ELSE "loading"
                /\ messages' = msgs1
                /\ calls' = Replied(calls, resp)
                /\ UNCHANGED <<cgAttempt, error>>

\* callClaudeWithTools resolves with the provider's answer.
RepairReplied ==
    /\ rpc = "await"
    /\ ~aborted
    /\ systemPrompt' = systemPrompt
    /\ \E stop \in StopReasons, content \in CodegenContents :
          /\ WellFormed(stop, content)
          /\ LET resp == Body(stop, content, BodyNumber)
             IN  IF NeedsRetry(resp)
                 THEN /\ rpc' = "awaitRetry"
                      /\ response' = resp
                      /\ calls' = Append(Replied(calls, resp),
                                         Request(systemPrompt, MAX_TOKENS_EXTENDED,
                                                 messages))
                      /\ UNCHANGED <<cgAttempt, messages, error>>
                 ELSE Respond(resp)
    /\ UNCHANGED <<aborted, tvars, statuses, epc, turn, cpc, meta, dispatched,
                   result, pvars, libs, executed, offered,
                   xvars, fvars, bvars>>

\* The callClaudeWithTools of the truncation retry resolves.
RepairRepliedRetry ==
    /\ rpc = "awaitRetry"
    /\ ~aborted
    /\ systemPrompt' = systemPrompt
    /\ \E stop \in StopReasons, content \in CodegenContents :
          /\ WellFormed(stop, content)
          /\ Respond(Body(stop, content, BodyNumber))
    /\ UNCHANGED <<aborted, tvars, statuses, epc, turn, cpc, meta, dispatched,
                   result, pvars, libs, executed, offered,
                   xvars, fvars, bvars>>

\* callClaudeWithTools rejects: the signal was aborted, or the provider
\* answered an error that is not retried.
RepairRejected ==
    /\ rpc \in {"await", "awaitRetry"}
    /\ rpc' = "failed"
    /\ error' = IF aborted THEN ErrAbortError ELSE ErrApi(400)
    /\ UNCHANGED <<aborted, tvars, statuses, epc, turn, cpc, cgAttempt, messages,
                   meta, response, dispatched, calls, result, systemPrompt,
                   pvars, libs, executed, offered,
                   xvars, fvars, bvars>>

\* executeGeneratedCode returned out's verdict to the loop: a success is
\* returned; a failure is fed back, and on the last attempt a buffer it
\* came with is offered.
Repair(out) ==
    LET block == CodeBlock(response.content)
        gen == ExecutedCode(block.id, out)
        msgs1 == Fed(messages, gen.toolResult)
    IN  /\ executed' = Append(executed, [attempt |-> cgAttempt, out |-> out, gen |-> gen])
        /\ IF gen.action = "success"
           THEN /\ rpc' = "returned"
                /\ result' = gen
                /\ offered' = out
                /\ UNCHANGED <<cgAttempt, messages, calls, error>>
           ELSE IF LastAttempt(cgAttempt) /\ gen.buffer # NoBuffer
           THEN /\ rpc' = "returned"
                /\ result' = gen
                /\ offered' = gen.buffer
                /\ messages' = msgs1
                /\ UNCHANGED <<cgAttempt, calls, error>>
           ELSE /\ RepairAttempt(cgAttempt + 1, msgs1, calls)
                /\ UNCHANGED <<result, offered,
                   xvars, fvars, bvars>>

\* fetchLibraries settles: the sandbox is set up and listens to the signal
\* (an abort that fired before is not heard), or the load failed.
LibrariesSettle ==
    /\ rpc = "loading"
    /\ systemPrompt' = systemPrompt
    /\ \/ /\ libs' = "loaded"
          /\ rpc' = IF aborted THEN "unheard" ELSE "executing"
          /\ UNCHANGED <<cgAttempt, messages, calls, error, result, executed, offered,
                   xvars, fvars, bvars>>
       \/ /\ libs' = "none"
          /\ Repair(ErrLibraries)
    /\ UNCHANGED <<aborted, tvars, statuses, epc, turn, cpc, meta, response,
                   dispatched, pvars,
                   xvars, fvars, bvars>>

\* The sandbox settles: the worker posts a result or an error, or times out.
SandboxSettles ==
    /\ rpc \in {"executing", "unheard"}
    /\ systemPrompt' = systemPrompt
    /\ \E out \in Buffers \cup WorkerErrors : Repair(out)
    /\ UNCHANGED <<aborted, tvars, statuses, epc, turn, cpc, meta, response,
                   dispatched, pvars, libs,
                   xvars, fvars, bvars>>

NextRepair ==
    \/ RepairCall
    \/ RepairReplied
    \/ RepairRepliedRetry
    \/ RepairRejected
    \/ LibrariesSettle
    \/ SandboxSettles
    \/ Abort

SpecRepair == Init /\ [][NextRepair]_vars

(***************************************************************************)
(* The sandbox.  executeInWorker runs generated code in a worker owned by  *)
(* a sandboxed iframe and hears from it through window messages; execute   *)
(* runs it as a function on the event loop of the node process.  The       *)
(* caller awaits each execution before it starts the next one              *)
(* (runCodeGenAgent, app.js line 766; runPipeline, part_004 line 40).      *)
(***************************************************************************)
NotExecuting == xpc \in {"idle", "resolved", "rejected"}

\* The generated code's return value carries a buffer.
HasBuffer_Any(r) == TRUE

\* !result || !result.buffer, negated
HasBuffer(r) == r = "buffer"

\* What comes of the function of the generated code settling with r: a
\* result, the error it threw, or the error thrown for a missing buffer.
Outcome(r) ==
    IF r = "thrown" THEN "error"
    ELSE IF HasBuffer(r) THEN "result"
    ELSE "contract"

\* What the worker posts for it.
Posted(i, r) ==
    Message(i, IF Outcome(r) = "result" THEN "result" ELSE "error", Outcome(r))

\* The body of the promise of executeInWorker: the iframe is created and
\* appended, the timer set, the listeners added.  The bridge of the iframe
\* posts bridge_ready once it is loaded.
Attach(i) ==
    /\ iframe' = i
    /\ timeout' = timeout \cup {i}
    /\ listening' = TRUE
    /\ heard' = ~aborted
    /\ mailbox' = Append(mailbox, Message(i, "bridge_ready", ""))
    /\ xpc' = "bridge"

\* executeInWorker is called by an attempt of the agent.
ExecuteInWorkerCall ==
    /\ NoAgent \/ xenv = "browser"
    /\ tpc = "idle"
    /\ xenv \in {"none", "browser"}
    /\ NotExecuting
    /\ ~aborted
    /\ xn < MaxExecutions
    /\ xenv' = "browser"
    /\ xn' = xn + 1
    /\ settled' = [settled EXCEPT ![xn + 1] = "pending"]
    /\ IF libsPromise = "fulfilled"
       THEN /\ Attach(xn + 1)
            /\ UNCHANGED libsPromise
       ELSE /\ libsPromise' = "pending"
            /\ xpc' = "libs"
            /\ UNCHANGED <<iframe, timeout, listening, heard, mailbox>>
    /\ UNCHANGED <<aborted, tvars, statuses, avars, pvars, rvars, code, overdue,
                   late, cancelled, files, given, returned, fvars, bvars>>

\* fetchLibraries settles.
LibrariesLoad ==
    /\ xpc = "libs"
    /\ \/ /\ libsPromise' = "fulfilled"
          /\ Attach(xn)
          /\ UNCHANGED settled
       \/ /\ libsPromise' = "null"
          /\ settled' = [settled EXCEPT ![xn] = "libraries"]
          /\ xpc' = "rejected"
          /\ UNCHANGED <<iframe, timeout, listening, heard, mailbox>>
    /\ UNCHANGED <<aborted, tvars, statuses, avars, pvars, rvars, xenv, xn, code,
                   overdue, late, cancelled, files, given, returned, fvars, bvars>>

\* A window message is delivered: onMessage, if it is still registered.
Deliver ==
    /\ xenv = "browser"
    /\ mailbox # <<>>
    /\ LET msg == Head(mailbox)
           i == msg.source
       IN  IF ~listening \/ i # iframe
           THEN /\ mailbox' = Tail(mailbox)
                /\ UNCHANGED <<xpc, iframe, listening, timeout, code, settled,
                               late, given>>
           ELSE /\ late' = IF settled[i] # "pending" \/ cancelled = i
                           THEN late \cup {<<i, msg.type>>}
                           ELSE late
                /\ CASE msg.type = "bridge_ready" ->
                          /\ given' = [given EXCEPT ![i] = files]
                          /\ code' = [code EXCEPT ![i] = "running"]
                          /\ mailbox' = Append(Tail(mailbox),
                                               Message(i, "log", "Executing..."))
                          /\ xpc' = "exec"
                          /\ UNCHANGED <<iframe, listening, timeout, settled>>
                     [] msg.type = "log" ->
                          /\ mailbox' = Tail(mailbox)
                          /\ UNCHANGED <<xpc, iframe, listening, timeout, code,
                                         settled, given>>
                     [] msg.type = "result" ->
                          /\ cleanup(i)
                          /\ settled' = [settled EXCEPT ![i] = "result"]
                          /\ xpc' = "resolved"
                          /\ mailbox' = Tail(mailbox)
                          /\ UNCHANGED given
                     [] OTHER ->
                          /\ cleanup(i)
                          /\ settled' = [settled EXCEPT ![i] = msg.message]
                          /\ xpc' = "rejected"
                          /\ mailbox' = Tail(mailbox)
                          /\ UNCHANGED given
    /\ UNCHANGED <<aborted, tvars, statuses, avars, pvars, rvars, xenv, xn,
                   libsPromise, heard, overdue, cancelled, files, returned,
                   fvars, bvars>>

\* The timer of executeInWorker fires.
WorkerTimeout ==
    /\ xenv = "browser"
    /\ xpc \in {"bridge", "exec"}
    /\ iframe \in timeout
    /\ overdue' = overdue \cup {iframe}
    /\ settled' = [settled EXCEPT ![iframe] = "timeout"]
    /\ cleanup(iframe)
    /\ xpc' = "rejected"
    /\ UNCHANGED <<aborted, tvars, statuses, avars, pvars, rvars, xenv, xn,
                   libsPromise, heard, mailbox, late, cancelled, files, given,
                   returned, fvars, bvars>>

\* execute is called by runPipeline: the function of the generated code is
\* called, and runs up to its first await, before the timer is set.
ExecuteCall ==
    /\ NoAgent \/ xenv = "node"
    /\ tpc = "idle"
    /\ xenv \in {"none", "node"}
    /\ NotExecuting
    /\ ~Blocked
    /\ ~aborted
    /\ xn < MaxExecutions
    /\ xenv' = "node"
    /\ xn' = xn + 1
    /\ settled' = [settled EXCEPT ![xn + 1] = "pending"]
    /\ \/ /\ code' = [code EXCEPT ![xn + 1] = "running"]
          /\ timeout' = timeout \cup {xn + 1}
       \/ /\ code' = [code EXCEPT ![xn + 1] = "spinning"]
          /\ UNCHANGED timeout
    /\ xpc' = "race"
    /\ UNCHANGED <<aborted, tvars, statuses, avars, pvars, rvars, libsPromise,
                   iframe, listening, heard, mailbox, overdue, late, cancelled,
                   files, given, returned, fvars, bvars>>

\* The generated code writes into the buffers it was handed: the copies in
\* the worker, the run's own buffers in node.
CodeWrites ==
    /\ ~Blocked
    /\ \E i \in Executions :
          /\ code[i] = "running"
          /\ given[i] = Original
          /\ given' = [given EXCEPT ![i] = Written]
          /\ files' = IF xenv = "node" THEN Written ELSE files
          /\ late' = IF settled[i] # "pending"
                     THEN late \cup {<<i, "write">>}
                     ELSE late
    /\ UNCHANGED <<aborted, tvars, statuses, avars, pvars, rvars, xenv, xpc, xn,
                   libsPromise, iframe, listening, timeout, heard, code, mailbox,
                   settled, overdue, cancelled, returned, fvars, bvars>>

\* The generated code in node, resumed after an await, does not give the
\* event loop back.
CodeSpins ==
    /\ xenv = "node"
    /\ ~Blocked
    /\ \E i \in Executions :
          /\ code[i] = "running"
          /\ code' = [code EXCEPT ![i] = "spinning"]
    /\ UNCHANGED <<aborted, tvars, statuses, avars, pvars, rvars, xenv, xpc, xn,
                   libsPromise, iframe, listening, timeout, heard, mailbox,
                   settled, overdue, late, cancelled, files, given, returned,
                   fvars, bvars>>

\* The function of the generated code settles: it returns an object with a
\* buffer, returns nothing, or throws.  The worker posts what came of it;
\* in node the race is settled by it unless the timer was first.
CodeReturns ==
    /\ ~Blocked
    /\ \E i \in Executions, r \in {"buffer", "nothing", "thrown"} :
          /\ code[i] = "running"
          /\ code' = [code EXCEPT ![i] = "ended"]
          /\ returned' = [returned EXCEPT ![i] = r]
          /\ IF xenv = "browser"
             THEN /\ mailbox' = Append(mailbox, Posted(i, r))
                  /\ UNCHANGED <<xpc, settled>>
             ELSE /\ UNCHANGED mailbox
                  /\ IF settled[i] = "pending"
                     THEN /\ settled' = [settled EXCEPT ![i] = Outcome(r)]
                          /\ xpc' = IF Outcome(r) = "result"
                                    THEN "resolved" ELSE "rejected"
                     ELSE UNCHANGED <<xpc, settled>>
    /\ UNCHANGED <<aborted, tvars, statuses, avars, pvars, rvars, xenv, xn,
                   libsPromise, iframe, listening, timeout, heard, overdue, late,
                   cancelled, files, given, fvars, bvars>>

\* The timer of execute fires; it is never cleared, and settles the race
\* only if the race is still open.
ExecuteTimeout ==
    /\ xenv = "node"
    /\ ~Blocked
    /\ \E i \in timeout :
          /\ timeout' = timeout \ {i}
          /\ IF settled[i] = "pending"
             THEN /\ settled' = [settled EXCEPT ![i] = "timeout"]
                  /\ overdue' = overdue \cup {i}
                  /\ xpc' = "rejected"
             ELSE UNCHANGED <<settled, overdue, xpc>>
    /\ UNCHANGED <<aborted, tvars, statuses, avars, pvars, rvars, xenv, xn,
                   libsPromise, iframe, listening, heard, code, mailbox, late,
                   cancelled, files, given, returned, fvars, bvars>>

\* The wall-clock budget of the pending execution runs out while the event
\* loop is held: no timer callback can run.
BudgetElapses ==
    /\ Blocked
    /\ settled[xn] = "pending"
    /\ xn \notin overdue
    /\ overdue' = overdue \cup {xn}
    /\ UNCHANGED <<aborted, tvars, statuses, avars, pvars, rvars, xenv, xpc, xn,
                   libsPromise, iframe, listening, timeout, heard, code, mailbox,
                   settled, late, cancelled, files, given, returned, fvars, bvars>>

NextSandbox ==
    \/ ExecuteInWorkerCall
    \/ LibrariesLoad
    \/ Deliver
    \/ WorkerTimeout
    \/ ExecuteCall
    \/ CodeWrites
    \/ CodeSpins
    \/ CodeReturns
    \/ ExecuteTimeout
    \/ BudgetElapses
    \/ Abort

SpecSandbox == Init /\ [][NextSandbox]_vars

(***************************************************************************)
(* Claims about callClaude, checked under SpecTransport.                   *)
(***************************************************************************)
Transient(st) == st \in {429, 502, 503, 529}

AllTransient(n) == \A i \in 1..n : Transient(statuses[i])

\* C1: transient statuses are retried at most 3 times after the first
\* attempt, with waits of 1 s, 2 s, 4 s (min(1s * 2^k, 8s) before retry k); a
\* success on any attempt is returned as the provider gave it, with no error;
\* a transient status on the last attempt makes the call fail with it.
C1_RetryBackoff ==
    /\ sent <= 1 + 3
    /\ Len(delays) <= 3
    /\ delays = SubSeq(<<1000, 2000, 4000>>, 1, Len(delays))
    /\ \A k \in 1..Len(delays) : Transient(statuses[k])
    /\ (statuses # <<>> /\ Transient(Last(statuses)) /\ Len(statuses) <= 3)
          => /\ Len(delays) = Len(statuses)
             /\ tErr.kind # "Claude API error"
             /\ tpc = "fetch" => sent = Len(statuses) + 1
    /\ (statuses # <<>> /\ Last(statuses) = 200)
          => /\ tpc = "ok"
             /\ tOut = httpResponse.body
             /\ tOut # NoResponse
             /\ tErr = NoError
             /\ AllTransient(Len(statuses) - 1)
    /\ (Len(statuses) = 4 /\ Transient(Last(statuses)))
          => /\ tpc = "err"
             /\ tErr = ErrApi(Last(statuses))
             /\ sent = 4

\* C1 witness: a success on the third retry, after 1 s, 2 s and 4 s of backoff.
C1_Witness ==
    /\ tpc = "ok"
    /\ Len(statuses) = 4
    /\ delays = <<1000, 2000, 4000>>

Leading503(n) == Len(statuses) >= n /\ \A i \in 1..n : statuses[i] = 503

\* C2 as stated: after three consecutive 503 answers no fourth request is
\* sent, and once the backoff is over the call has failed on the 503.
C2_ScenarioD_AsStated ==
    Leading503(3) => /\ sent = 3
                     /\ tpc # "sleep" => tErr = ErrApi(503)

\* C2 amended: three consecutive 503 answers are each followed by a backoff
\* (1 + 2 + 4 = 7 s in all) and then by a fourth request; the call fails on
\* the 503 only when that fourth request is answered 503 too, and no fifth
\* request is sent.
C2_ScenarioD ==
    /\ sent <= 4
    /\ (Leading503(3) /\ Len(statuses) = 3)
          => /\ delays = <<1000, 2000, 4000>>
             /\ SumSeq(delays) = 7000
             /\ tErr.kind # "Claude API error"
             /\ tpc = "fetch" => sent = 4
    /\ Leading503(4)
          => /\ tpc = "err"
             /\ tErr = ErrApi(503)
             /\ SumSeq(delays) = 7000
             /\ sent = 4
             /\ Len(statuses) = 4

\* C2 witness: four consecutive 503 answers.
C2_Witness == Leading503(4) /\ tpc = "err"

\* C3: a non-success status outside 429, 502, 503, 529 makes the call throw
\* an error carrying it at once: no backoff is slept for it and no request
\* follows it, however many retries are left.
C3_FatalStatus ==
    (httpResponse.status \notin {0, 200} /\ ~Transient(httpResponse.status))
       => /\ tpc = "err"
          /\ tErr = ErrApi(httpResponse.status)
          /\ Last(statuses) = httpResponse.status
          /\ sent = Len(statuses)
          /\ Len(delays) = Len(statuses) - 1
          /\ attempt = Len(statuses) - 1

\* C3 witness: a 500 on the first attempt, all three retries still unused.
C3_Witness ==
    /\ httpResponse.status = 500
    /\ attempt = 0
    /\ tErr = ErrApi(500)

(***************************************************************************)
(* Claims about explore, checked under SpecExplore.                        *)
(***************************************************************************)
Submits(content) ==
    \E i \in 1..Len(content) :
        content[i].type = "tool_use" /\ content[i].name = "submit_report"

FirstSubmitArgs(content) ==
    LET i == CHOOSE j \in 1..Len(content) :
                 /\ content[j].type = "tool_use" /\ content[j].name = "submit_report"
                 /\ \A k \in 1..(j - 1) :
                       ~(content[k].type = "tool_use" /\ content[k].name = "submit_report")
    IN  content[i].input

\* The tool invocations of a response other than the report submission.
Invocations(content) ==
    SelectSeq(content, LAMBDA b : b.type = "tool_use" /\ b.name # "submit_report")

ModelResponses == Len(SelectSeq(messages, LAMBDA m : m.role = "assistant"))

Handled == epc # "idle" /\ response # NoResponse

CallInFlight == tpc # "idle" \/ sent # 0

\* C4: when a response invokes submit_report, explore returns the arguments
\* of that invocation as the report; nothing of that response is dispatched
\* and no model call follows.
C4_SubmitTerminates ==
    /\ (Handled /\ Submits(response.content))
          => /\ epc = "returned"
             /\ result = [kind |-> "exploration",
                          report |-> FirstSubmitArgs(response.content)]
             /\ error = NoError
             /\ dispatched = <<>>
             /\ Last(messages) = [role |-> "assistant", content |-> response.content]
             /\ ~CallInFlight
             /\ ModelResponses = meta.turns
    /\ epc = "returned" => Handled /\ Submits(response.content)

\* C4 witness: a report submitted in a response that also invokes read_rows.
C4_Witness ==
    /\ epc = "returned"
    /\ Invocations(response.content) # <<>>
    /\ result.report = response.content[2].input

\* The aggregated turn of the last response: its tool invocations were all
\* dispatched in order, and their results are the one user turn that follows
\* the response in the conversation, which the next request carries.
Aggregated ==
    LET want == Invocations(response.content)
        n == Len(messages)
    IN  /\ Len(dispatched) = Len(want)
        /\ \A i \in 1..Len(want) :
              /\ dispatched[i].id = want[i].id
              /\ dispatched[i].name = want[i].name
              /\ dispatched[i].input = want[i].input
        /\ n >= 3
        /\ messages[n - 1] = [role |-> "assistant", content |-> response.content]
        /\ messages[n].role = "user"
        /\ Len(messages[n].content) = Len(want)
        /\ \A i \in 1..Len(want) :
              /\ messages[n].content[i].type = "tool_result"
              /\ messages[n].content[i].tool_use_id = want[i].id
              /\ messages[n].content[i].content.of = <<want[i].name, want[i].input>>
        /\ epc = "await" => calls[1].messages = messages

\* C5 as stated: every response that does not submit the report has its
\* tool invocations (when it holds any) dispatched and aggregated.
C5_AsStated ==
    (Handled /\ ~Submits(response.content) /\ Invocations(response.content) # <<>>)
       => Aggregated

\* C5 amended: every response that does not submit the report and whose stop
\* reason is tool_use has its non-terminal tool invocations dispatched in
\* order and their results appended as exactly one user turn (one tool_result
\* per invocation, same order, with its id, computed from that invocation's
\* name and arguments alone) before the next model call.
C5_Aggregation ==
    (Handled /\ ~Submits(response.content) /\ response.stop_reason = "tool_use")
       => Aggregated

\* C5 witness: a batch of two invocations, aggregated, next request sent.
C5_Witness ==
    /\ epc = "await"
    /\ Handled
    /\ Len(dispatched) = 2
    /\ Len(Last(messages).content) = 2

\* C6 as stated: once the 15 model calls are made and answered without a
\* report, explore has failed with the turn-limit error.
C6_AsStated ==
    (epc = "failed" /\ meta.turns = 15 /\ ModelResponses = 15)
       => error = ErrTurnLimit

\* C6 amended: explore makes at most 15 model calls; it returns a report only
\* from a submit_report invocation; when all 15 responses ask for tools
\* without submitting it fails with the turn-limit error, and a response that
\* neither submits nor stops on a tool invocation (the 15th too) fails with
\* the stopped-without-report error; a failed explore returns no report.
C6_TurnBudget ==
    /\ meta.turns <= 15
    /\ ModelResponses <= meta.turns
    /\ epc = "returned" => /\ Submits(response.content)
                           /\ result.report = FirstSubmitArgs(response.content)
    /\ epc # "returned" => result = NoResult
    /\ epc = "failed" => error # NoError
    /\ (Handled /\ ModelResponses = 15 /\ ~Submits(response.content))
          => /\ epc = "failed"
             /\ ~CallInFlight
             /\ error = IF response.stop_reason = "tool_use"
                        THEN ErrTurnLimit ELSE ErrStopped
    /\ error = ErrTurnLimit => ModelResponses = 15 /\ turn = 15

\* C6 witness: the turn limit is hit.
C6_Witness == epc = "failed" /\ error = ErrTurnLimit /\ meta.turns = 15

\* C7: a response that holds no report submission and whose stop reason is
\* not tool_use makes explore throw at once: no report, nothing dispatched,
\* no further model call, whatever is left of the turn budget.
C7_NoToolFails ==
    (Handled /\ ~Submits(response.content) /\ response.stop_reason # "tool_use")
       => /\ epc = "failed"
          /\ error = ErrStopped
          /\ result = NoResult
          /\ dispatched = <<>>
          /\ Last(messages) = [role |-> "assistant", content |-> response.content]
          /\ ~CallInFlight
          /\ ModelResponses = meta.turns

\* C7 witness: the first response is plain text, 14 turns are left.
C7_Witness ==
    /\ epc = "failed"
    /\ error = ErrStopped
    /\ response.stop_reason = "end_turn"
    /\ meta.turns = 1

TruncatedMidTool(resp) ==
    /\ resp.stop_reason = "max_tokens"
    /\ resp.content # <<>>
    /\ Last(resp.content).type = "tool_use"

\* C8: a response of explore truncated in the middle of a tool call is
\* retried once with the larger output budget before it counts as a failure.
C8_TruncationRetried ==
    (epc = "failed" /\ Handled /\ TruncatedMidTool(response))
       => \E i \in 1..Len(calls) : calls[i].max_tokens = MAX_TOKENS_EXTENDED

\* C17: no invocation of submit_report or of generate_code in a response of
\* the exploration loop is passed to executeTool.
C17_SentinelsNotDispatched ==
    \A i \in 1..Len(dispatched) :
        dispatched[i].name \notin {"submit_report", "generate_code"}

(***************************************************************************)
(* Claims about codegen, checked under SpecCodegen.                        *)
(***************************************************************************)
EmitsCode(content) ==
    \E i \in 1..Len(content) :
        content[i].type = "tool_use" /\ content[i].name = "generate_code"

FirstCodeArgs(content) ==
    LET i == CHOOSE j \in 1..Len(content) :
                 /\ content[j].type = "tool_use" /\ content[j].name = "generate_code"
                 /\ \A k \in 1..(j - 1) :
                       ~(content[k].type = "tool_use" /\ content[k].name = "generate_code")
    IN  content[i].input

\* C9: codegen makes at most 3 attempts; it returns the code of the first
\* attempt whose response holds a generate_code invocation; an attempt
\* without one uses up one attempt; when none of the 3 attempts yields one,
\* codegen fails with an error and returns no code.
C9_AttemptBudget ==
    /\ meta.attempts <= 3
    /\ ModelResponses <= meta.attempts
    /\ cpc \in {"await", "awaitRetry"} => meta.attempts = ModelResponses + 1
    /\ \A i \in 1..(Len(messages) - 1) : ~EmitsCode(messages[i].content)
    /\ cpc = "returned"
          => /\ Last(messages).role = "assistant"
             /\ EmitsCode(Last(messages).content)
             /\ result = [kind |-> "code",
                          code |-> FirstCodeArgs(Last(messages).content)]
             /\ ModelResponses = meta.attempts
             /\ error = NoError
    /\ (cpc # "idle" /\ EmitsCode(Last(messages).content)) => cpc = "returned"
    /\ cpc # "returned" => result = NoResult
    /\ (ModelResponses = 3 /\ ~EmitsCode(Last(messages).content))
          => /\ cpc = "failed"
             /\ error = ErrCodegen
             /\ ~CallInFlight
    /\ error = ErrCodegen => ModelResponses = 3 /\ meta.attempts = 3

\* C9 witness: the code arrives on the third attempt.
C9_Witness ==
    /\ cpc = "returned"
    /\ meta.attempts = 3
    /\ ModelResponses = 3

\* C10: a first response of an attempt that is cut at max_tokens with a tool
\* invocation as its last block is followed at once by exactly one more call
\* with the same messages and max_tokens 32768 instead of 16384; the response
\* to that call is the attempt's response and is never retried itself.
C10_TruncationRetry ==
    /\ Len(calls) <= 2
    /\ Len(calls) >= 1 => calls[1].max_tokens = 16384
    /\ Len(calls) = 2
          => /\ calls[2].max_tokens = 32768
             /\ calls[2].messages = calls[1].messages
             /\ TruncatedMidTool(calls[1].reply)
    /\ (Len(calls) >= 1 /\ TruncatedMidTool(calls[1].reply)) => Len(calls) = 2
    /\ cpc = "await"
          => Len(calls) = 1 /\ maxTokens = 16384 /\ messages = calls[1].messages
    /\ cpc = "awaitRetry"
          => Len(calls) = 2 /\ maxTokens = 32768 /\ messages = calls[2].messages
    /\ (Len(calls) = 2 /\ calls[2].reply # NoResponse)
          => /\ response = calls[2].reply
             /\ Last(messages) = [role |-> "assistant",
                                  content |-> calls[2].reply.content]
             /\ Len(messages) = Len(calls[2].messages) + 1
             /\ cpc = "returned"
                   => result.code = FirstCodeArgs(calls[2].reply.content)

\* C10 witness: the retry's response is cut inside a tool call again, and is
\* taken as it is.
C10_Witness ==
    /\ cpc = "returned"
    /\ Len(calls) = 2
    /\ TruncatedMidTool(calls[2].reply)

(***************************************************************************)
(* Claims about runPipeline, checked under SpecPipeline.                   *)
(***************************************************************************)
Phases == <<"exploring", "codegen", "executing", "verifying">>

PhaseNumber(phase) == CHOOSE i \in 1..4 : Phases[i] = phase

\* The place of an event in a run: phase by phase, 'started' first,
\* 'complete' last, the turn and attempt notices in between.
Place(e) ==
    3 * PhaseNumber(e.phase)
      + (CASE e.status = "started" -> 0 [] e.status = "complete" -> 2 [] OTHER -> 1)

Marks == SelectSeq(events, LAMBDA e : e.status \in {"started", "complete"})

Reached(phase) == \E i \in 1..Len(events) : events[i].phase = phase

Completed(phase) ==
    \E i \in 1..Len(events) : events[i].phase = phase /\ events[i].status = "complete"

\* C11: the phases of runPipeline run one after the other: codegen starts
\* only with the report explore returned, execution only with the code
\* codegen returned, verification only with the buffer execute returned; the
\* 'started' and 'complete' events come in the order of the phases, each
\* once, a 'complete' before the next 'started'; a phase that fails emits no
\* 'complete' and nothing starts after it.
C11_Sequential ==
    /\ \A i \in 1..(Len(events) - 1) :
           /\ Place(events[i]) <= Place(events[i + 1])
           /\ (events[i].status # "none" \/ events[i + 1].status # "none")
                 => Place(events[i]) < Place(events[i + 1])
    /\ \A i \in 1..Len(Marks) :
           Place(Marks[i]) = (IF i % 2 = 1 THEN 3 ELSE 5) + 3 * ((i - 1) \div 2)
    /\ ppc # "idle" => Len(Marks) >= 1
    /\ Reached("codegen")
          => /\ Completed("exploring")
             /\ epc = "returned"
             /\ run.report # <<>>
             /\ Submits(response.content)
                   => run.report = FirstSubmitArgs(response.content)
             /\ systemPrompt = <<"CODEGEN_TEMPLATE", run.report>>
    /\ cpc # "idle" => Reached("codegen")
    /\ Reached("executing")
          => /\ Completed("codegen")
             /\ cpc = "returned"
             /\ run.code = [kind |-> "code", code |-> FirstCodeArgs(Last(messages).content)]
    /\ ppc \in {"executing", "verifying"} => Reached(ppc) /\ ~Completed(ppc)
    /\ Reached("verifying")
          => /\ Completed("executing")
             /\ run.output.kind = "buffer"
             /\ expected
    /\ ppc = "exploring" => ~Reached("codegen")
    /\ ppc = "codegen" => ~Reached("executing")
    /\ ppc = "executing" => ~Reached("verifying")
    /\ ppc = "failed"
          => /\ Len(Marks) % 2 = 1
             /\ Last(Marks).status = "started"
             /\ error # NoError
    /\ ppc = "returned"
          => /\ Len(Marks) = IF expected THEN 8 ELSE 6
             /\ Last(Marks).status = "complete"

\* C11 witness: a run through all four phases, with a second exploration
\* turn and a second codegen attempt.
C11_Witness ==
    /\ ppc = "returned"
    /\ run.verification = [done |-> TRUE, pass |-> TRUE]
    /\ run.meta.explore.turns = 2
    /\ run.meta.codegen.attempts = 2

TaskTurn == [role |-> "user", content |-> <<[type |-> "text", name |-> "", id |-> <<>>, input |-> <<>>]>>]

\* C16: what codegen sends to the model is made of the submitted report and
\* the task alone: the system prompt is built from the report, the
\* conversation starts with the task and goes on with codegen's own
\* responses only; no turn and no tool result of the exploration is in it.
C16_ReportOnly ==
    cpc # "idle"
       => /\ ppc # "exploring"
          /\ systemPrompt = <<"CODEGEN_TEMPLATE", run.report>>
          /\ messages[1] = TaskTurn
          /\ \A j \in 2..Len(messages) :
                 /\ messages[j].role = "assistant"
                 /\ \A b \in 1..Len(messages[j].content) :
                        messages[j].content[b].type \in {"text", "tool_use"}
          /\ \A k \in 1..Len(calls) :
                 /\ calls[k].system = <<"CODEGEN_TEMPLATE", run.report>>
                 /\ calls[k].messages # <<>>
                 /\ calls[k].messages = SubSeq(messages, 1, Len(calls[k].messages))
          /\ (cgAttempt = 0 /\ calls # <<>>)
                => calls[1] = [system |-> <<"CODEGEN_TEMPLATE", run.report>>,
                               max_tokens |-> 16384,
                               messages |-> <<TaskTurn>>,
                               reply |-> calls[1].reply]

\* C16 witness: the second request of codegen, after an exploration that
\* read rows before it submitted its report.
C16_Witness ==
    /\ ppc = "codegen"
    /\ cpc = "await"
    /\ cgAttempt = 1
    /\ run.meta.explore.turns = 2

\* C18: once the signal is aborted, no further request is posted and no backoff
\* is begun by callClaude, and explore and codegen start no further turn or
\* attempt.
C18_AbortPreemptsRetry ==
    [][aborted =>
          /\ sent' <= sent
          /\ tpc' \in {"fetch", "sleep"} => tpc' = tpc
          /\ Len(delays') <= Len(delays)
          /\ Len(calls') <= Len(calls)
          /\ meta'.turns <= meta.turns
          /\ meta'.attempts <= meta.attempts
          /\ epc' = "await" => epc = "await"
          /\ cpc' \in {"await", "awaitRetry"} => cpc' = cpc]_vars

\* The abort came during the first backoff of a call: the call ended with
\* 'Aborted' at the head of the loop, one request posted and no second one.
C18_Witness ==
    /\ aborted
    /\ tpc = "err"
    /\ tErr = ErrAborted
    /\ Len(delays) = 1
    /\ attempt = 1
    /\ sent = 1

\* C19: whenever the signal is aborted, the pipeline is not waiting on a model
\* request, on a backoff delay or on the sandbox: each of the three waits ends
\* with the abort.
C19_ObservedEverywhere ==
    aborted => /\ tpc \notin {"fetch", "sleep"}
               /\ ppc # "executing"

\* C20: a run whose signal was aborted before it finished returns no result,
\* and the failure it ends with is the cancellation.
C20_AbortedRunFails ==
    aborted => /\ ppc # "returned"
               /\ ppc = "failed" => error = ErrAborted

(***************************************************************************)
(* Claims about the repair loop, checked under SpecRepair.                 *)
(***************************************************************************)
ExecutionFailed(out) == out.kind # "buffer"

\* The rows from the third one on, five at most, each hold a number and hold
\* no number but 0.
Degenerate(out) ==
    /\ out.kind = "buffer"
    /\ out.parses
    /\ Len(out.rows) > 2
    /\ \A r \in 3..(IF Len(out.rows) < 7 THEN Len(out.rows) ELSE 7) :
           /\ \E c \in 1..Len(out.rows[r]) : out.rows[r][c].type = "number"
           /\ \A c \in 1..Len(out.rows[r]) :
                  out.rows[r][c].type = "number" => out.rows[r][c].v = 0

\* The output is no workbook (structure), or its data rows are zeros (values).
VerificationFailed(out) ==
    out.kind = "buffer" /\ (~out.parses \/ Degenerate(out))

InConversation(diagnostic) ==
    \E j \in 1..Len(messages) :
        messages[j] = [role |-> "user", content |-> <<diagnostic>>]

\* C12: an attempt whose execution failed, or whose output failed the
\* structural or value verification, is answered, while attempts remain, with
\* a diagnostic appended to the conversation as a tool result and with a new
\* attempt.
C12_RepairLoop ==
    \A i \in 1..Len(executed) :
        LET e == executed[i]
        IN  ((ExecutionFailed(e.out) \/ VerificationFailed(e.out)) /\ e.attempt < 3 - 1)
               => /\ e.gen.action = "retry"
                  /\ e.gen.toolResult.type = "tool_result"
                  /\ InConversation(e.gen.toolResult)
                  /\ cgAttempt > e.attempt

\* C13: when the run fails because the 3 attempts are spent, no attempt of
\* it ever produced an output buffer.
C13_DegradedNotDiscarded ==
    (rpc = "failed" /\ error.kind = "Code generation failed after max retries")
       => \A i \in 1..Len(executed) : executed[i].out.kind # "buffer"

ZeroColumn(out) ==
    /\ out.kind = "buffer"
    /\ out.parses
    /\ Len(out.rows) >= 2
    /\ \E c \in 1..Len(out.rows[1]) :
           \A r \in 2..Len(out.rows) : out.rows[r][c] = [type |-> "number", v |-> 0]

\* The state right after executed[i] was fed back: no response since.
JustFed(i) ==
    /\ i = Len(executed)
    /\ Last(messages) = [role |-> "user", content |-> <<executed[i].gen.toolResult>>]

\* One further attempt, whose requests carry the conversation that ends with
\* the diagnostic of executed[i].
OneFurtherAttempt(i) ==
    /\ cgAttempt = executed[i].attempt + 1
    /\ rpc \in {"await", "awaitRetry", "failed"}
    /\ rpc = "await" => Len(calls) = 1
    /\ rpc = "awaitRetry" => Len(calls) = 2
    /\ rpc = "failed" => Len(calls) \in {1, 2} /\ error.kind # "none"
    /\ \A k \in 1..Len(calls) : calls[k].messages = messages

\* C14 as stated: an output with a numeric column of zeros is never accepted
\* as a success, and one further attempt carrying the diagnostic follows.
C14_AsStated ==
    \A i \in 1..Len(executed) :
        ZeroColumn(executed[i].out)
           => /\ executed[i].gen.action = "retry"
              /\ JustFed(i) => OneFurtherAttempt(i)

\* C14 amended: an output of more than two rows whose rows from the third on
\* (five at most) each hold a number and no number but 0 is not accepted as a
\* success: it is fed back with the all-zeros diagnostic and kept as a
\* buffer; before the last attempt exactly one further attempt follows,
\* whose request ends with that diagnostic (unless the run was cancelled), and
\* on the last attempt the run ends offering the buffer.  Any other output
\* buffer is accepted as a success.
C14_ScenarioB ==
    \A i \in 1..Len(executed) :
        LET e == executed[i]
        IN  /\ Degenerate(e.out)
               => /\ e.gen.action = "retry"
                  /\ e.gen.buffer = e.out
                  /\ e.gen.toolResult.content[1] = "ALL ZEROS"
                  /\ InConversation(e.gen.toolResult)
                  /\ (JustFed(i) /\ e.attempt < 2)
                        => \/ OneFurtherAttempt(i)
                           \/ /\ aborted
                              /\ rpc = "failed"
                              /\ error.kind = "AbortError"
                  /\ e.attempt = 2
                        => /\ rpc = "returned"
                           /\ offered = e.out
                           /\ result = e.gen
            /\ (e.out.kind = "buffer" /\ ~Degenerate(e.out))
                  => /\ e.gen.action = "success"
                     /\ i = Len(executed)
                     /\ rpc = "returned"
                     /\ offered = e.out

\* C14 witness: the first attempt wrote zeros, the second one is under way.
C14_Witness ==
    /\ Len(executed) = 1
    /\ Degenerate(executed[1].out)
    /\ rpc = "await"
    /\ cgAttempt = 1
    /\ Len(messages) = 3

IsPrefix(a, b) == Len(a) <= Len(b) /\ SubSeq(b, 1, Len(a)) = a

\* Every request carries the whole conversation, in which the response of
\* each failed attempt is followed by the diagnostic of its failure.
Carried ==
    /\ \A k \in 1..Len(calls) :
           calls[k].reply = NoResponse => calls[k].messages = messages
    /\ messages # <<>> => messages[1] = [role |-> "user", content |-> <<TextBlock>>]
    /\ \A i \in 1..Len(executed) :
           executed[i].gen.action = "retry"
              => \E j \in 2..Len(messages) :
                    /\ messages[j] = [role |-> "user",
                                      content |-> <<executed[i].gen.toolResult>>]
                    /\ messages[j - 1].role = "assistant"
                    /\ \E b \in 1..Len(messages[j - 1].content) :
                          messages[j - 1].content[b].id
                             = executed[i].gen.toolResult.tool_use_id
    /\ rpc \in {"await", "awaitRetry"}
          => Len(SelectSeq(messages, LAMBDA m : m.role = "assistant")) = cgAttempt

\* C15: within a run the conversation only grows at its end: every step
\* leaves the turns it held as they were, so that the request of an attempt
\* carries the response of every attempt before it and the diagnostic of
\* every failure before it.
C15_AppendOnly ==
    /\ [][rpc # "idle" => IsPrefix(messages, messages')]_vars
    /\ []Carried

\* C15 witness: the request of the third attempt, with the responses and the
\* diagnostics of the two attempts before it.
C15_Witness ==
    /\ rpc = "await"
    /\ cgAttempt = 2
    /\ Len(executed) = 2
    /\ Len(calls[1].messages) = 5

(***************************************************************************)
(* The verifier (verify.js): strings are sequences of characters, numbers  *)
(* are integers, a quotient is kept as numerator and denominator.          *)
(***************************************************************************)
MaxRows == 3

UpperCase == <<"A", "B", "C", "D", "E", "F", "G", "H", "I", "J", "K", "L", "M",
               "N", "O", "P", "Q", "R", "S", "T", "U", "V", "W", "X", "Y", "Z">>

LowerCase == <<"a", "b", "c", "d", "e", "f", "g", "h", "i", "j", "k", "l", "m",
               "n", "o", "p", "q", "r", "s", "t", "u", "v", "w", "x", "y", "z">>

Digits == {"0", "1", "2", "3", "4", "5", "6", "7", "8", "9"}

Lower(c) ==
    IF \E k \in 1..26 : UpperCase[k] = c
    THEN LowerCase[CHOOSE k \in 1..26 : UpperCase[k] = c]
    ELSE c

\* String.prototype.toLowerCase
toLowerCase(str) == [k \in 1..Len(str) |-> Lower(str[k])]

\* String.prototype.includes
includes(str, sub) ==
    \E i \in 0..(Len(str) - Len(sub)) : \A j \in 1..Len(sub) : str[i + j] = sub[j]

\* String.prototype.trim
RECURSIVE trim(_)
trim(str) ==
    IF str = <<>> THEN str
    ELSE IF Head(str) = " " THEN trim(Tail(str))
    ELSE IF Last(str) = " " THEN trim(SubSeq(str, 1, Len(str) - 1))
    ELSE str

\* \w of a regular expression
WordChar(c) == Lower(c) \in {LowerCase[k] : k \in 1..26} \cup Digits \cup {"_"}

\* \b of a regular expression, between the characters k and k + 1 of str
WordBoundary(str, k) ==
    (k >= 1 /\ WordChar(str[k])) # (k < Len(str) /\ WordChar(str[k + 1]))

SummaryWords ==
    { <<"t", "o", "t", "a", "l">>, <<"s", "u", "m">>,
      <<"s", "u", "b", "t", "o", "t", "a", "l">>, <<"g", "r", "a", "n", "d">> }

\* The pattern without its word boundaries.
SummaryPattern_Unbounded(str) ==
    \E w \in SummaryWords : includes(toLowerCase(str), w)

\* /\b(total|sum|subtotal|grand)\b/i.test(str)
SummaryPattern(str) ==
    \E w \in SummaryWords :
        \E i \in 0..(Len(str) - Len(w)) :
            /\ WordBoundary(str, i)
            /\ \A j \in 1..Len(w) : Lower(str[i + j]) = w[j]
            /\ WordBoundary(str, i + Len(w))

\* Cells of a row matrix (sheet_to_json with header: 1, defval: null).
NumCell(n) == [type |-> "number", n |-> n, s |-> <<>>]

StrCell(str) == [type |-> "string", n |-> 0, s |-> str]

NullCell == [type |-> "object", n |-> 0, s |-> <<>>]

\* row?.[ci], the columns counted from 1
CellAt(row, ci) == IF ci \in 1..Len(row) THEN row[ci] ELSE NullCell

\* getHeaders; the header cells of the workbooks examined are strings or null
getHeaders(rows) ==
    IF Len(rows) = 0 THEN <<>>
    ELSE [k \in 1..Len(rows[1]) |->
             IF rows[1][k].type = "string" THEN trim(rows[1][k].s) ELSE <<>>]

\* colIndex: the columns counted from 1, 0 for -1
colIndex(headers, name) ==
    LET found == {k \in 1..Len(headers) : toLowerCase(headers[k]) = toLowerCase(name)}
    IN  IF found = {} THEN 0 ELSE CHOOSE k \in found : \A l \in found : k <= l

Abs(x) == IF x < 0 THEN 0 - x ELSE x

\* approxEqual(num / den, b) with the tolerance 0.01, den > 0
approxEqual(num, den, b) ==
    LET diff == Abs(num - b * den)
    IN  \/ diff = 0
        \/ 100 * diff <= den
        \/ 100 * diff <= Abs(b) * den

\* checkStructure
RECURSIVE missingSheets(_, _)
missingSheets(names, SheetNames) ==
    IF names = <<>> THEN <<>>
    ELSE (IF \E k \in 1..Len(SheetNames) :
                 includes(toLowerCase(SheetNames[k]), toLowerCase(Head(names)))
          THEN <<>> ELSE <<"Missing sheet">>)
         \o missingSheets(Tail(names), SheetNames)

RECURSIVE missingColumns(_, _)
missingColumns(cols, headers) ==
    IF cols = <<>> THEN <<>>
    ELSE (IF colIndex(headers, Head(cols)) # 0 THEN <<>> ELSE <<"Missing column">>)
         \o missingColumns(Tail(cols), headers)

checkStructure(wb, rows, headers, exp) ==
    missingSheets(exp.sheets, wb.SheetNames)
    \o (IF exp.min_rows # 0 /\ Len(rows) < exp.min_rows
        THEN <<"Too few rows">> ELSE <<>>)
    \o missingColumns(exp.required_columns, headers)

\* checkValues: the all-zeros check
numbersOf(row) == SelectSeq(row, LAMBDA v : v.type = "number")

valuesAllZeros(dataRows) ==
    LET sampled == SubSeq(dataRows, 1, Min(5, Len(dataRows)))
    IN  \A k \in 1..Len(sampled) :
            /\ Len(numbersOf(sampled[k])) > 0
            /\ \A l \in 1..Len(numbersOf(sampled[k])) : numbersOf(sampled[k])[l].n = 0

\* checkValues, column_sum: isSummaryRow
isSummaryRow(row) ==
    \E k \in 1..Len(row) : row[k].type = "string" /\ SummaryPattern(row[k].s)

\* checkValues, column_sum: the loop over dataRows
RECURSIVE columnSum(_, _)
columnSum(dataRows, ci) ==
    IF dataRows = <<>> THEN 0
    ELSE (IF ~isSummaryRow(Head(dataRows)) /\ CellAt(Head(dataRows), ci).type = "number"
          THEN CellAt(Head(dataRows), ci).n ELSE 0)
         + columnSum(Tail(dataRows), ci)

RECURSIVE columnSumErrors(_, _, _)
columnSumErrors(entries, dataRows, headers) ==
    IF entries = <<>> THEN <<>>
    ELSE LET ci == colIndex(headers, Head(entries).col)
         IN  (IF ci = 0 THEN <<"column_sum: column not found">>
              ELSE IF ~approxEqual(columnSum(dataRows, ci), 1, Head(entries).value)
              THEN <<"column_sum">>
              ELSE <<>>)
             \o columnSumErrors(Tail(entries), dataRows, headers)

\* checkValues, column_avg: the loop over dataRows, sum and count
RECURSIVE columnAvg(_, _)
columnAvg(dataRows, ci) ==
    IF dataRows = <<>> THEN [sum |-> 0, count |-> 0]
    ELSE LET rest == columnAvg(Tail(dataRows), ci)
             v == CellAt(Head(dataRows), ci)
         IN  IF v.type = "number"
             THEN [sum |-> rest.sum + v.n, count |-> rest.count + 1]
             ELSE rest

RECURSIVE columnAvgErrors(_, _, _)
columnAvgErrors(entries, dataRows, headers) ==
    IF entries = <<>> THEN <<>>
    ELSE LET ci == colIndex(headers, Head(entries).col)
             a == columnAvg(dataRows, ci)
         IN  (IF ci = 0 THEN <<"column_avg: column not found">>
              ELSE IF ~(IF a.count > 0
                        THEN approxEqual(a.sum, a.count, Head(entries).value)
                        ELSE approxEqual(0, 1, Head(entries).value))
              THEN <<"column_avg">>
              ELSE <<>>)
             \o columnAvgErrors(Tail(entries), dataRows, headers)

\* checkValues, for expectations whose checks are column_sum and column_avg
checkValues(rows, headers, checks) ==
    IF ~checks.given THEN <<>>
    ELSE LET dataRows == IF rows = <<>> THEN <<>> ELSE Tail(rows)
         IN  (IF Len(dataRows) > 0 /\ valuesAllZeros(dataRows)
              THEN <<"Data rows have all zeros in numeric columns">> ELSE <<>>)
             \o columnSumErrors(checks.column_sum, dataRows, headers)
             \o columnAvgErrors(checks.column_avg, dataRows, headers)

\* checkStyling; what the patterns find in the XML parts is given with the
\* buffer
checkStyling(buffer, checks) ==
    IF ~(checks.given /\ checks.has_bold_headers)
       /\ ~(checks.given /\ checks.has_number_format)
    THEN <<>>
    ELSE IF buffer.zip = "corrupt" THEN <<"styling: verification failed">>
    ELSE IF buffer.zip = "no parts"
    THEN <<"styling: cannot read xl/styles.xml or sheet XML">>
    ELSE (IF checks.has_bold_headers /\ ~buffer.hasBoldFont
          THEN <<"styling: no bold font defined in styles.xml">> ELSE <<>>)
         \o (IF checks.has_bold_headers /\ ~buffer.hasHeaderStyles
             THEN <<"styling: header row cells have no style attributes">>
             ELSE <<>>)
         \o (IF checks.has_number_format /\ ~buffer.hasCurrencyFmt
             THEN <<"styling: no currency number format found in styles.xml">>
             ELSE <<>>)

Verdict(errors) == IF errors = <<>> THEN "pass" ELSE "fail"

Report(structure, values, styling, errors, pass, row_count) ==
    [of |-> "verifyOutput", structure |-> structure, values |-> values,
     styling |-> styling, errors |-> errors, pass |-> pass,
     row_count |-> row_count]

\* result.structure === 'pass' && result.values === 'pass'
Both(structure, values) ==
    IF structure = "pass" /\ values = "pass" THEN "true" ELSE "false"

\* verifyOutput of the pipeline (verify.js next to pipeline.js)
verifyOutput(buffer, exp) ==
    IF ~buffer.parses
    THEN Report("fail", "pass", "pass", <<"Cannot parse xlsx">>, "false", 0)
    ELSE LET rows == buffer.rows
             headers == getHeaders(rows)
             structErrors == checkStructure(buffer, rows, headers, exp)
             valueErrors == checkValues(rows, headers, exp.checks)
             styleErrors == checkStyling(buffer, exp.checks)
         IN  Report(Verdict(structErrors), Verdict(valueErrors),
                    Verdict(styleErrors),
                    structErrors \o valueErrors \o styleErrors,
                    Both(Verdict(structErrors), Verdict(valueErrors)),
                    Len(rows))

\* verifyOutput of the eval runner (evals/lib/verify.js); a property the
\* returned object does not have reads as undefined.  (The headers are not
\* trimmed there; those of the workbooks examined carry no spaces.)
evalsVerifyOutput(buffer, exp) ==
    IF ~buffer.parses
    THEN Report("fail", "pass", "pass", <<"Cannot parse output xlsx">>,
                "undefined", -1)
    ELSE LET rows == buffer.rows
             structErrors ==
                 missingSheets(exp.sheets, buffer.SheetNames)
                 \o (IF exp.min_rows # 0 /\ Len(rows) < exp.min_rows
                     THEN <<"Too few rows">> ELSE <<>>)
                 \o (IF Len(rows) > 0
                     THEN missingColumns(exp.required_columns, getHeaders(rows))
                     ELSE <<>>)
             valueErrors ==
                 IF Len(rows) > 2
                    /\ valuesAllZeros(SubSeq(rows, 2, Min(6, Len(rows))))
                 THEN <<"All data rows have zero values in numeric columns">>
                 ELSE <<>>
         IN  Report(Verdict(structErrors), Verdict(valueErrors), "pass",
                    structErrors \o valueErrors,
                    Both(Verdict(structErrors), Verdict(valueErrors)),
                    Len(rows))

(***************************************************************************)
(* The workbooks and expectations the verifier is examined on.             *)
(***************************************************************************)
Name == <<"N", "a", "m", "e">>

Amt == <<"A", "m", "t">>

HeaderRow == <<StrCell(Name), StrCell(Amt)>>

DataRows ==
    { <<StrCell(<<"A", "n", "n">>), NumCell(10)>>,
      <<StrCell(<<"B", "o", "b">>), NumCell(20)>>,
      <<StrCell(<<"Z", "e", "d">>), NumCell(0)>>,
      <<StrCell(<<"G", "r", "a", "n", "d", " ", "T", "O", "T", "A", "L">>), NumCell(30)>>,
      <<StrCell(<<"S", "u", "m", "m", "a", "r", "y">>), NumCell(5)>> }

Matrices ==
    {<<>>} \cup
    UNION { { <<HeaderRow>> \o data : data \in [1..k -> DataRows] } : k \in 0..MaxRows }

OutputBuffers ==
    { [parses |-> TRUE, SheetNames |-> << <<"S", "h", "e", "e", "t", "1">> >>,
       rows |-> rows, zip |-> "ok", hasBoldFont |-> bold,
       hasHeaderStyles |-> TRUE, hasCurrencyFmt |-> TRUE] :
         rows \in Matrices, bold \in BOOLEAN }
    \cup
    { [parses |-> FALSE, SheetNames |-> <<>>, rows |-> <<>>, zip |-> zip,
       hasBoldFont |-> FALSE, hasHeaderStyles |-> FALSE,
       hasCurrencyFmt |-> FALSE] : zip \in {"corrupt", "ok"} }

Entry(col, value) == [col |-> col, value |-> value]

NoChecks ==
    [given |-> FALSE, column_sum |-> <<>>, column_avg |-> <<>>,
     has_bold_headers |-> FALSE, has_number_format |-> FALSE]

Checks ==
    {NoChecks} \cup
    { [given |-> TRUE, column_sum |-> cs, column_avg |-> ca,
       has_bold_headers |-> bold, has_number_format |-> FALSE] :
         cs \in {<<>>, <<Entry(<<"a", "m", "t">>, 30)>>, <<Entry(<<"A", "M", "T">>, 35)>>},
         ca \in {<<>>, <<Entry(<<"a", "m", "t">>, 15)>>},
         bold \in BOOLEAN }

AllChecks ==
    [given |-> TRUE, column_sum |-> <<Entry(<<"a", "m", "t">>, 30)>>,
     column_avg |-> <<Entry(<<"a", "m", "t">>, 15)>>,
     has_bold_headers |-> TRUE, has_number_format |-> TRUE]

Lenient(checks) ==
    [sheets |-> <<>>, min_rows |-> 0, required_columns |-> <<>>,
     checks |-> checks]

Strict(checks) ==
    [sheets |-> << <<"s", "h", "e", "e", "t">> >>, min_rows |-> 3,
     required_columns |-> << <<"a", "m", "t">>, <<"Q", "t", "y">> >>,
     checks |-> checks]

Expectations ==
    {Lenient(checks) : checks \in Checks}
    \cup {Strict(NoChecks), Strict(AllChecks)}

\* The eval runner's verifyOutput reads nothing of expected.checks.
VerifyInputs ==
    { [of |-> "verifyOutput", impl |-> "pipeline", buffer |-> buffer,
       expected |-> exp] : buffer \in OutputBuffers, exp \in Expectations }
    \cup
    { [of |-> "verifyOutput", impl |-> "evals", buffer |-> buffer,
       expected |-> exp] :
         buffer \in OutputBuffers, exp \in {Lenient(NoChecks), Strict(NoChecks)} }

InitVerify ==
    /\ InitProgram
    /\ fnInput \in VerifyInputs
    /\ fnOutput = NoOutput

\* verifyOutput(output.buffer, expected) as runPipeline calls it.
VerifyOutputCall ==
    /\ fnInput.of = "verifyOutput"
    /\ fnInput.impl = "pipeline"
    /\ fnOutput.of = "none"
    /\ fnOutput' = verifyOutput(fnInput.buffer, fnInput.expected)
    /\ UNCHANGED <<aborted, tvars, statuses, avars, pvars, rvars, xvars, fnInput, bvars>>

\* verifyOutput(execution.buffer, expected) as the eval runner calls it.
EvalsVerifyOutputCall ==
    /\ fnInput.of = "verifyOutput"
    /\ fnInput.impl = "evals"
    /\ fnOutput.of = "none"
    /\ fnOutput' = evalsVerifyOutput(fnInput.buffer, fnInput.expected)
    /\ UNCHANGED <<aborted, tvars, statuses, avars, pvars, rvars, xvars, fnInput, bvars>>

NextVerify ==
    \/ VerifyOutputCall
    \/ EvalsVerifyOutputCall

SpecVerify == InitVerify /\ [][NextVerify]_vars

(***************************************************************************)
(* The read_rows tool of executeTool (tools.js; the same code in app.js).  *)
(* A sheet is given by the number of its rows, a row by its index.         *)
(***************************************************************************)
MAX_READ_ROWS == 50

Max(a, b) == IF a > b THEN a ELSE b

\* The end of the span without the cap on the number of rows.
readEnd_Uncapped(length, end_row, start) == Min(length, end_row)

\* Math.min(rows.length, input.end_row, start + MAX_READ_ROWS)
readEnd(length, end_row, start) ==
    Min(Min(length, end_row), start + MAX_READ_ROWS)

\* case 'read_rows'
read_rows(in) ==
    IF in.file = "missing" \/ in.sheet = "missing"
    THEN [of |-> "read_rows", error |-> TRUE, total_rows |-> 0, returned |-> 0,
          rows |-> <<>>]
    ELSE LET start == Max(0, in.start_row)
             end == readEnd(in.length, in.end_row, start)
             rows == [k \in 1..Max(0, end - start) |-> start + k - 1]
         IN  [of |-> "read_rows", error |-> FALSE, total_rows |-> in.length,
              returned |-> Len(rows), rows |-> rows]

SheetLengths == {0, 1, 10, 49, 50, 51, 60, 75, 120}

RowNumbers == {-100, -1, 0, 1, 10, 20, 49, 50, 51, 60, 70, 100, 200}

ReadRowsInputs ==
    { [of |-> "read_rows", file |-> "found", sheet |-> "found", length |-> length,
       start_row |-> start_row, end_row |-> end_row] :
         length \in SheetLengths, start_row \in RowNumbers, end_row \in RowNumbers }
    \cup
    { [of |-> "read_rows", file |-> file, sheet |-> sheet, length |-> 10,
       start_row |-> 0, end_row |-> 100] :
         file \in {"found", "missing"}, sheet \in {"found", "missing"} }

InitReadRows ==
    /\ InitProgram
    /\ fnInput \in ReadRowsInputs
    /\ fnOutput = NoOutput

\* executeTool('read_rows', input)
ReadRowsCall ==
    /\ fnInput.of = "read_rows"
    /\ fnOutput.of = "none"
    /\ fnOutput' = read_rows(fnInput)
    /\ UNCHANGED <<aborted, tvars, statuses, avars, pvars, rvars, xvars, fnInput, bvars>>

NextReadRows == ReadRowsCall

SpecReadRows == InitReadRows /\ [][NextReadRows]_vars

(***************************************************************************)
(* Claims about the sandbox, checked under SpecSandbox.                    *)
(***************************************************************************)
\* What was done for the execution i after its promise settled or after the
\* signal was aborted over it.
LateWork(i) == {e \in late : e[1] = i}

\* C21: an abort that comes while an execution is pending in executeInWorker
\* rejects it with the abort error at once, frees its iframe and worker, and
\* no message of that execution is handled afterwards.
C21_AbortFreesSandbox ==
    (xenv = "browser" /\ cancelled # 0) =>
        /\ settled[cancelled] = "abort"
        /\ iframe # cancelled
        /\ code[cancelled] \notin Active
        /\ LateWork(cancelled) = {}

\* C22: an execution whose wall-clock budget ran out is rejected with the
\* timeout error, and a timed-out execution does nothing further: its code is
\* off the thread and nothing is done for it any more.
C22_TimeoutLeavesExecutorReusable ==
    \A i \in Executions :
        /\ i \in overdue => settled[i] = "timeout"
        /\ settled[i] = "timeout" =>
              /\ code[i] \notin Active
              /\ LateWork(i) = {}

\* C23: generated code that returned nothing, or an object without a buffer,
\* yields no output; unless the timeout or an abort came first the executor
\* fails with the contract error, which is not the timeout error.
C23_ContractViolation ==
    \A i \in Executions :
        returned[i] = "nothing" =>
            /\ settled[i] # "result"
            /\ (i \notin overdue /\ cancelled # i) =>
                   settled[i] \in {"pending", "contract"}

\* Code returned nothing in the worker and executeInWorker rejected with the
\* contract error.
C23_Witness ==
    /\ xenv = "browser"
    /\ returned[1] = "nothing"
    /\ settled[1] = "contract"

\* Executions of one run: the attempts of runCodeGenAgent share a run, each
\* runPipeline makes one call of execute.
SameRun(i, j) == xenv = "browser"

\* C24: within a run, once a later execution has been started every earlier
\* one has settled, its iframe is gone and its generated code is off the
\* thread.
C24_OneInFlight ==
    \A i, j \in Executions :
        (i < j /\ j <= xn /\ SameRun(i, j)) =>
            /\ settled[i] # "pending"
            /\ iframe # i
            /\ code[i] \notin Active

\* The first execution timed out with its code still running, and the code
\* of the second one is running.
C24_Witness ==
    /\ xenv = "browser"
    /\ settled[1] = "timeout"
    /\ returned[1] = "none"
    /\ code[2] = "running"

\* C25: the source buffers held by the run keep their bytes whatever the
\* generated code writes into the buffers it was handed.
C25_SourcesUnchanged == files = Original

(***************************************************************************)
(* Claims about the verifier, checked under SpecVerify.                    *)
(***************************************************************************)
Verified == fnOutput.of = "verifyOutput"

Range(seq) == {seq[k] : k \in 1..Len(seq)}

\* C26: the overall pass of a report is true when its structure and values
\* verdicts are both 'pass' and false otherwise, an output that cannot be
\* parsed included; the styling verdict has no part in it.
C26_OverallPass ==
    Verified => fnOutput.pass = Both(fnOutput.structure, fnOutput.values)

\* The rows the value layer has to go by: those of the first sheet, none if
\* the output is no workbook.
RowsOf(buffer) == IF buffer.parses THEN buffer.rows ELSE <<>>

\* C27: whatever the structure layer finds, the report of verifyOutput
\* carries the verdict and the errors of the values layer and of the styling
\* layer for this output and expectation.
C27_LayersIndependent ==
    (Verified /\ fnInput.impl = "pipeline") =>
        LET rows == RowsOf(fnInput.buffer)
            valueErrors == checkValues(rows, getHeaders(rows), fnInput.expected.checks)
            styleErrors == checkStyling(fnInput.buffer, fnInput.expected.checks)
        IN  /\ fnOutput.values = Verdict(valueErrors)
            /\ fnOutput.styling = Verdict(styleErrors)
            /\ Range(valueErrors) \cup Range(styleErrors) \subseteq Range(fnOutput.errors)

\* The words of a string: its longest runs of letters, digits and
\* underscores, in lower case.
Words(str) ==
    LET n == Len(str)
        starts == {a \in 1..n : WordChar(str[a]) /\ (a = 1 \/ ~WordChar(str[a - 1]))}
        ends == {b \in 1..n : WordChar(str[b]) /\ (b = n \/ ~WordChar(str[b + 1]))}
        endOf(a) == CHOOSE b \in ends : b >= a /\ \A c \in ends : c >= a => b <= c
    IN  {SubSeq(toLowerCase(str), a, endOf(a)) : a \in starts}

\* A row that reads as a total: one of its text cells has one of the words.
NamesSummary(row) ==
    \E k \in 1..Len(row) :
        row[k].type = "string" /\ Words(row[k].s) \cap SummaryWords # {}

\* The data rows of the output that are not totals.
Remaining(buffer) ==
    SelectSeq(Tail(buffer.rows), LAMBDA row : ~NamesSummary(row))

\* The numbers of a column, row by row, 0 where the cell is no number.
NumbersIn(rows, ci) ==
    [k \in 1..Len(rows) |->
        IF CellAt(rows[k], ci).type = "number" THEN CellAt(rows[k], ci).n ELSE 0]

\* The rows with a number in the column.
Counted(rows, ci) == SelectSeq(rows, LAMBDA row : CellAt(row, ci).type = "number")

\* The column an entry of a check names, where the output has it.
ColumnOf(entry) == colIndex(getHeaders(fnInput.buffer.rows), entry.col)

Checked(entries) ==
    /\ Verified
    /\ fnInput.impl = "pipeline"
    /\ fnInput.buffer.parses
    /\ fnInput.buffer.rows # <<>>
    /\ Len(entries) = 1
    /\ ColumnOf(entries[1]) # 0

\* C28: a column_sum check passes exactly when the numbers of the column in
\* the data rows that name no total, sum, subtotal or grand add up to the
\* expected value within the tolerance: rows that do are left out despite
\* their numbers.
C28_ColumnSumSkipsTotals ==
    LET entries == fnInput.expected.checks.column_sum
    IN  Checked(entries) =>
            ("column_sum" \notin Range(fnOutput.errors)
             <=> approxEqual(SumSeq(NumbersIn(Remaining(fnInput.buffer),
                                              ColumnOf(entries[1]))),
                             1, entries[1].value))

\* The output has a total row with a number in the column, the check passed,
\* and the column summed over all data rows is not within the tolerance.
C28_Witness ==
    LET entries == fnInput.expected.checks.column_sum
    IN  /\ Checked(entries)
        /\ \E k \in 2..Len(fnInput.buffer.rows) :
              /\ NamesSummary(fnInput.buffer.rows[k])
              /\ CellAt(fnInput.buffer.rows[k], ColumnOf(entries[1])).type = "number"
        /\ "column_sum" \notin Range(fnOutput.errors)
        /\ ~approxEqual(SumSeq(NumbersIn(Tail(fnInput.buffer.rows),
                                         ColumnOf(entries[1]))),
                        1, entries[1].value)

\* C29: a column_avg check passes exactly when the average of the numbers of
\* the column in the data rows that name no total, sum, subtotal or grand is
\* the expected value within the tolerance.
C29_ColumnAvgSkipsTotals ==
    LET entries == fnInput.expected.checks.column_avg
    IN  Checked(entries) =>
            LET rows == Counted(Remaining(fnInput.buffer), ColumnOf(entries[1]))
                total == SumSeq(NumbersIn(rows, ColumnOf(entries[1])))
            IN  "column_avg" \notin Range(fnOutput.errors)
                <=> IF Len(rows) > 0
                    THEN approxEqual(total, Len(rows), entries[1].value)
                    ELSE approxEqual(0, 1, entries[1].value)

(***************************************************************************)
(* Claims about read_rows, checked under SpecReadRows.                     *)
(***************************************************************************)
Read == fnOutput.of = "read_rows" /\ ~fnOutput.error

DigitChars == <<"0", "1", "2", "3", "4", "5", "6", "7", "8", "9">>

\* String(n) of an integer
RECURSIVE decimal(_)
decimal(n) ==
    IF n < 0 THEN <<"-">> \o decimal(0 - n)
    ELSE IF n < 10 THEN <<DigitChars[n + 1]>>
    ELSE decimal(n \div 10) \o <<DigitChars[(n % 10) + 1]>>

\* String(v) of a cell
String(v) ==
    IF v.type = "number" THEN decimal(v.n)
    ELSE IF v.type = "string" THEN v.s
    ELSE <<"n", "u", "l", "l">>

\* rows[r] || [], the rows counted from 0
RowAt(rows, r) == IF r \in 0..(Len(rows) - 1) THEN rows[r + 1] ELSE <<>>

\* Set.prototype.add on a set kept in insertion order
add(set, k) == IF \E i \in 1..Len(set) : set[i] = k THEN set ELSE Append(set, k)

\* The loop that collects the trimmed keys of column col from row r on.
RECURSIVE keysFrom(_, _, _, _)
keysFrom(rows, r, col, keys) ==
    IF r >= Len(rows) THEN keys
    ELSE LET v == CellAt(RowAt(rows, r), col + 1)
         IN  keysFrom(rows, r + 1, col,
                      IF v.type # "object" /\ trim(String(v)) # <<>>
                      THEN add(keys, trim(String(v)))
                      ELSE keys)

has(set, k) == \E i \in 1..Len(set) : set[i] = k

\* The keys of file 2 without the test against the keys of file 1.
only2_Unfiltered(keys1, keys2) == keys2

\* for (const k of keys2) { if (!keys1.has(k)) only2.push(k); }
only2(keys1, keys2) == SelectSeq(keys2, LAMBDA k : ~has(keys1, k))

\* Array.prototype.slice(0, n)
slice(arr, n) == SubSeq(arr, 1, Min(n, Len(arr)))

\* The sheets of the files examined: a key column with padded, repeated,
\* numeric and empty cells, and a second column.
SheetRows(file) ==
    IF file = "left"
    THEN << <<StrCell(<<" ", "a">>), NumCell(5)>>,
            <<StrCell(<<"b">>), StrCell(<<"5">>)>>,
            <<NullCell, StrCell(<<" ">>)>>,
            <<StrCell(<<"a">>), NumCell(7)>>,
            <<StrCell(<<"d">>)>> >>
    ELSE << <<StrCell(<<"a", " ">>), StrCell(<<"b">>)>>,
            <<StrCell(<<"c">>), NumCell(5)>>,
            <<StrCell(<<>>), NullCell>>,
            <<NumCell(12), StrCell(<<"7", " ">>)>> >>

CompareKeysError ==
    [of |-> "compare_keys", error |-> TRUE, file1_keys |-> 0, file2_keys |-> 0,
     shared |-> 0, only_in_file1 |-> 0, only_in_file2 |-> 0,
     sample_only_file1 |-> <<>>, sample_only_file2 |-> <<>>]

\* case 'compare_keys'
compare_keys(in) ==
    IF in.file1 = "missing" \/ in.file2 = "missing"
    THEN CompareKeysError
    ELSE LET keys1 == keysFrom(SheetRows(in.file1), in.start1, in.col1, <<>>)
             keys2 == keysFrom(SheetRows(in.file2), in.start2, in.col2, <<>>)
             only1 == SelectSeq(keys1, LAMBDA k : ~has(keys2, k))
             o2 == only2(keys1, keys2)
         IN  [of |-> "compare_keys", error |-> FALSE,
              file1_keys |-> Len(keys1), file2_keys |-> Len(keys2),
              shared |-> Len(SelectSeq(keys1, LAMBDA k : has(keys2, k))),
              only_in_file1 |-> Len(only1), only_in_file2 |-> Len(o2),
              sample_only_file1 |-> slice(only1, 5),
              sample_only_file2 |-> slice(o2, 5)]

\* The same call with the two sides exchanged.
Swapped(in) ==
    [of |-> in.of, file1 |-> in.file2, col1 |-> in.col2, start1 |-> in.start2,
     file2 |-> in.file1, col2 |-> in.col1, start2 |-> in.start1]

FileNames == {"left", "right", "missing"}

ColumnNumbers == {0, 1, 2}

StartRows == {-1, 0, 1, 2, 4, 9}

CompareKeysInputs ==
    { [of |-> "compare_keys", file1 |-> file1, col1 |-> col1, start1 |-> start1,
       file2 |-> file2, col2 |-> col2, start2 |-> start2] :
         file1 \in FileNames, col1 \in ColumnNumbers, start1 \in StartRows,
         file2 \in FileNames, col2 \in ColumnNumbers, start2 \in StartRows }

InitCompareKeys ==
    /\ InitProgram
    /\ fnInput \in CompareKeysInputs
    /\ fnOutput = NoOutput

\* executeTool('compare_keys', input)
CompareKeysCall ==
    /\ fnInput.of = "compare_keys"
    /\ fnOutput.of = "none"
    /\ fnOutput' = [of |-> "compare_keys", calls |-> <<compare_keys(fnInput)>>]
    /\ UNCHANGED <<aborted, tvars, statuses, avars, pvars, rvars, xvars, fnInput, bvars>>

\* executeTool('compare_keys', input) with the sides of the input exchanged
CompareKeysSwappedCall ==
    /\ fnOutput.of = "compare_keys"
    /\ Len(fnOutput.calls) = 1
    /\ fnOutput' = [fnOutput EXCEPT
                       !.calls = Append(@, compare_keys(Swapped(fnInput)))]
    /\ UNCHANGED <<aborted, tvars, statuses, avars, pvars, rvars, xvars, fnInput, bvars>>

NextCompareKeys == CompareKeysCall \/ CompareKeysSwappedCall

SpecCompareKeys == InitCompareKeys /\ [][NextCompareKeys]_vars

\* ---------------------------------------------------------------------
\* Claims about compare_keys, checked under SpecCompareKeys
\* ---------------------------------------------------------------------

\* Both calls have been made.
Compared == fnOutput.of = "compare_keys" /\ Len(fnOutput.calls) = 2

\* C31: compare_keys(file1, col1, start1, file2, col2, start2) and the call
\* with the two sides exchanged fail together or succeed together, and when
\* they succeed they yield the same shared count, exchanged only-in-file1 and
\* only-in-file2 counts and samples, and exchanged key-set sizes.
C31_SwapSymmetry ==
    Compared =>
        LET direct == fnOutput.calls[1]
            swapped == fnOutput.calls[2]
        IN  /\ direct.error = swapped.error
            /\ direct.shared = swapped.shared
            /\ direct.only_in_file1 = swapped.only_in_file2
            /\ direct.only_in_file2 = swapped.only_in_file1
            /\ direct.file1_keys = swapped.file2_keys
            /\ direct.file2_keys = swapped.file1_keys
            /\ direct.sample_only_file1 = swapped.sample_only_file2
            /\ direct.sample_only_file2 = swapped.sample_only_file1

\* Two different columns were compared both ways: they share keys and each
\* has keys the other lacks, in different numbers.
C31_Witness ==
    /\ Compared
    /\ ~fnOutput.calls[1].error
    /\ fnInput.file1 # fnInput.file2
    /\ fnOutput.calls[1].shared > 0
    /\ fnOutput.calls[1].only_in_file1 > fnOutput.calls[1].only_in_file2
    /\ fnOutput.calls[1].only_in_file2 > 0
    /\ fnOutput.calls[2].only_in_file2 = fnOutput.calls[1].only_in_file1

\* ---------------------------------------------------------------------
\* get_column_stats (executeTool)
\* ---------------------------------------------------------------------

MAX_UNIQUE_VALUES == 30

\* v === null || v === undefined || v === ''
IsEmptyCell(v) == v.type = "object" \/ (v.type = "string" /\ v.s = <<>>)

\* The loop of get_column_stats over the rows from r on; acc holds count,
\* emptyCount and uniques.
RECURSIVE statsFrom(_, _, _, _)
statsFrom(rows, r, col, acc) ==
    IF r >= Len(rows) THEN acc
    ELSE LET v == CellAt(RowAt(rows, r), col + 1)
         IN  statsFrom(rows, r + 1, col,
                IF IsEmptyCell(v)
                THEN [acc EXCEPT !.emptyCount = @ + 1]
                ELSE [acc EXCEPT
                        !.count = @ + 1,
                        !.uniques = IF Len(@) < MAX_UNIQUE_VALUES
                                    THEN add(@, String(v)) ELSE @])

\* The column of the sheet examined: `empties' empty cells, the numbers
\* 1..distinct, then `repeats' cells holding the text "1".
StatsRows(in) ==
    [k \in 1..in.empties |-> <<IF k % 2 = 1 THEN NullCell ELSE StrCell(<<>>)>>]
    \o [k \in 1..in.distinct |-> <<NumCell(k)>>]
    \o [k \in 1..in.repeats |-> <<StrCell(<<"1">>)>>]

\* case 'get_column_stats'
get_column_stats(in) ==
    IF in.file = "missing"
    THEN [of |-> "get_column_stats", error |-> TRUE, non_empty |-> 0,
          empty |-> 0, plus |-> FALSE, unique_count |-> 0,
          unique_values |-> <<>>]
    ELSE LET acc == statsFrom(StatsRows(in), in.start_row, 0,
                              [count |-> 0, emptyCount |-> 0, uniques |-> <<>>])
             size == Len(acc.uniques)
         IN  [of |-> "get_column_stats", error |-> FALSE,
              non_empty |-> acc.count, empty |-> acc.emptyCount,
              plus |-> size >= MAX_UNIQUE_VALUES,
              unique_count |-> IF size >= MAX_UNIQUE_VALUES
                               THEN MAX_UNIQUE_VALUES ELSE size,
              unique_values |-> IF size <= MAX_UNIQUE_VALUES THEN acc.uniques
                                ELSE slice(acc.uniques, MAX_UNIQUE_VALUES)
                                     \o << <<".", ".", ".">> >>]

ColumnStatsInputs ==
    { [of |-> "get_column_stats", file |-> file, distinct |-> distinct,
       repeats |-> repeats, empties |-> empties, start_row |-> start_row] :
         file \in {"left", "missing"}, distinct \in {0, 1, 2, 29, 30, 31, 32, 45},
         repeats \in {0, 1, 3}, empties \in {0, 1, 2}, start_row \in {0, 1, 3} }

InitColumnStats ==
    /\ InitProgram
    /\ fnInput \in ColumnStatsInputs
    /\ fnOutput = NoOutput

\* executeTool('get_column_stats', input)
ColumnStatsCall ==
    /\ fnInput.of = "get_column_stats"
    /\ fnOutput.of = "none"
    /\ fnOutput' = get_column_stats(fnInput)
    /\ UNCHANGED <<aborted, tvars, statuses, avars, pvars, rvars, xvars, fnInput, bvars>>

NextColumnStats == ColumnStatsCall

SpecColumnStats == InitColumnStats /\ [][NextColumnStats]_vars

\* ---------------------------------------------------------------------
\* Claims about get_column_stats, checked under SpecColumnStats
\* ---------------------------------------------------------------------

\* The distinct stringified non-empty values of the column from start_row on.
DistinctValues ==
    LET rows == StatsRows(fnInput)
    IN  { String(rows[r + 1][1]) :
            r \in { q \in fnInput.start_row..(Len(rows) - 1) :
                      ~IsEmptyCell(rows[q + 1][1]) } }

\* The result carries an overflow marker, in unique_count or unique_values.
Overflow ==
    \/ fnOutput.plus
    \/ \E k \in 1..Len(fnOutput.unique_values) :
          fnOutput.unique_values[k] = <<".", ".", ".">>

\* C32: get_column_stats returns at most 30 distinct stringified values of
\* the column; when the column holds more than 30 distinct non-empty values
\* the result carries the overflow marker, and when it holds 30 or fewer it
\* carries none and unique_count is the exact number of distinct values.
C32_OverflowBeyondCap ==
    (fnOutput.of = "get_column_stats" /\ ~fnOutput.error) =>
        /\ Len(fnOutput.unique_values) <= 30
        /\ \A k \in 1..Len(fnOutput.unique_values) :
              fnOutput.unique_values[k] \in DistinctValues
        /\ Cardinality(DistinctValues) > 30 => Overflow
        /\ Cardinality(DistinctValues) <= 30 =>
              /\ ~Overflow
              /\ fnOutput.unique_count = Cardinality(DistinctValues)

\* ---------------------------------------------------------------------
\* pruneMessages (browser client)
\* ---------------------------------------------------------------------

PRUNE_KEEP_RECENT == 8

PRUNE_CONTENT_LIMIT == 200

\* '... [pruned for context]'
PrunedMarker ==
    <<".", ".", ".", " ", "[", "p", "r", "u", "n", "e", "d", " ", "f", "o",
      "r", " ", "c", "o", "n", "t", "e", "x", "t", "]">>

\* A string of n characters.
Chars(n) == [k \in 1..n |-> "x"]

\* Content blocks; `str' tells a string content from an array content.
TextOf(n) ==
    [type |-> "text", id |-> 0, str |-> TRUE, content |-> Chars(n)]

ToolUseBlock(id, n) ==
    [type |-> "tool_use", id |-> id, str |-> TRUE, content |-> Chars(n)]

ToolResultBlock(id, n) ==
    [type |-> "tool_result", id |-> id, str |-> TRUE, content |-> Chars(n)]

\* A tool result whose content is an array of blocks, not a string.
ToolResultArray(id, n) ==
    [type |-> "tool_result", id |-> id, str |-> FALSE, content |-> Chars(n)]

\* A message whose content is a string.
StringMessage(role, n) ==
    [role |-> role, isArray |-> FALSE, content |-> <<TextOf(n)>>]

ArrayMessage(role, blocks) ==
    [role |-> role, isArray |-> TRUE, content |-> blocks]

\* block.type === 'tool_result' && typeof block.content === 'string' &&
\* block.content.length > PRUNE_CONTENT_LIMIT
Oversized(block) ==
    /\ block.type = "tool_result"
    /\ block.str
    /\ Len(block.content) > PRUNE_CONTENT_LIMIT

\* The block pruneMessages maps a content block to.
pruneBlock(block) ==
    IF Oversized(block)
    THEN [block EXCEPT
            !.content = slice(block.content, PRUNE_CONTENT_LIMIT) \o PrunedMarker]
    ELSE block

\* The bound of the loop without the recent messages kept.
pruneEnd_All(length) == length

\* i < messages.length - PRUNE_KEEP_RECENT
pruneEnd(length) == length - PRUNE_KEEP_RECENT

\* The message at index i (from 0) is one whose blocks the loop maps.
Prunable(msgs, i) ==
    /\ Len(msgs) > PRUNE_KEEP_RECENT + 1
    /\ i >= 1
    /\ i < pruneEnd(Len(msgs))
    /\ msgs[i + 1].role = "user"
    /\ msgs[i + 1].isArray

\* pruneMessages(messages): the messages it leaves and the value it returns
pruneMessages(msgs) ==
    LET after == [k \in 1..Len(msgs) |->
                    IF Prunable(msgs, k - 1)
                    THEN [msgs[k] EXCEPT
                            !.content = [b \in 1..Len(@) |-> pruneBlock(@[b])]]
                    ELSE msgs[k]]
    IN  [messages |-> after,
         pruned |-> \E k \in 1..Len(msgs) :
                       /\ Prunable(msgs, k - 1)
                       /\ \E b \in 1..Len(msgs[k].content) :
                             Oversized(msgs[k].content[b])]

\* The conversation examined: the task, then assistant turns with text and
\* tool calls and user turns with tool results of the given lengths; the
\* user turn at index 2 is a plain string when in.plain.
ConversationOf(in) ==
    [k \in 1..in.length |->
        IF k = 1 THEN StringMessage("user", in.a)
        ELSE IF k % 2 = 0
        THEN ArrayMessage("assistant",
                          <<TextOf(in.b), ToolUseBlock(k, in.a),
                            ToolResultBlock(k, in.c)>>)
        ELSE IF k = 3 /\ in.plain THEN StringMessage("user", in.a)
        ELSE ArrayMessage("user",
                          <<ToolResultBlock(k - 1, IF k = 3 THEN in.a
                                                   ELSE IF k = 5 THEN in.b
                                                   ELSE in.c),
                            TextOf(in.c),
                            ToolResultArray(k, in.a),
                            ToolResultBlock(k + 100, in.b)>>)]

ConversationLengths == {1, 2, 9, 10, 11, 12, 13, 14}

ContentLengths == {0, 5, 200, 201, 300}

PruneInputs ==
    { [of |-> "pruneMessages", length |-> length, a |-> a, b |-> b, c |-> c,
       plain |-> plain] :
         length \in ConversationLengths, a \in ContentLengths,
         b \in ContentLengths, c \in ContentLengths, plain \in BOOLEAN }

InitPrune ==
    /\ InitProgram
    /\ fnInput \in PruneInputs
    /\ fnOutput = NoOutput

\* pruneMessages(messages)
PruneMessagesCall ==
    /\ fnInput.of = "pruneMessages"
    /\ fnOutput.of = "none"
    /\ fnOutput' = [of |-> "pruneMessages",
                    calls |-> <<pruneMessages(ConversationOf(fnInput))>>]
    /\ UNCHANGED <<aborted, tvars, statuses, avars, pvars, rvars, xvars, fnInput, bvars>>

\* pruneMessages(messages) once more, on the messages the first call left
PruneMessagesAgain ==
    /\ fnOutput.of = "pruneMessages"
    /\ Len(fnOutput.calls) = 1
    /\ fnOutput' = [fnOutput EXCEPT
                       !.calls = Append(@, pruneMessages(@[1].messages))]
    /\ UNCHANGED <<aborted, tvars, statuses, avars, pvars, rvars, xvars, fnInput, bvars>>

NextPrune == PruneMessagesCall \/ PruneMessagesAgain

SpecPrune == InitPrune /\ [][NextPrune]_vars

\* ---------------------------------------------------------------------
\* Claims about pruneMessages, checked under SpecPrune
\* ---------------------------------------------------------------------

\* pruneMessages has been applied once, or more.
Pruned == fnOutput.of = "pruneMessages"

\* C33: pruneMessages never changes the number, order or roles of the
\* messages, never touches the first message or the 8 most recent ones,
\* leaves text blocks, tool-invocation blocks and tool results of 200
\* characters or fewer unchanged, and replaces a longer tool-result string
\* only by its first 200 characters plus the pruned marker, keeping its
\* tool_use_id.
C33_PruneFrame ==
    Pruned =>
        LET before == ConversationOf(fnInput)
            after == fnOutput.calls[1].messages
        IN  /\ Len(after) = Len(before)
            /\ \A k \in 1..Len(before) :
                  /\ after[k].role = before[k].role
                  /\ after[k].isArray = before[k].isArray
                  /\ Len(after[k].content) = Len(before[k].content)
                  /\ (k = 1 \/ k > Len(before) - 8) => after[k] = before[k]
                  /\ \A b \in 1..Len(before[k].content) :
                        LET old == before[k].content[b]
                            new == after[k].content[b]
                        IN  /\ new.type = old.type
                            /\ new.id = old.id
                            /\ new.str = old.str
                            /\ (\/ old.type # "tool_result"
                                \/ ~old.str
                                \/ Len(old.content) <= 200) => new = old
                            /\ new # old =>
                                  new.content =
                                      SubSeq(old.content, 1, 200) \o PrunedMarker

\* An old tool result of more than 200 characters was shortened to 224 while
\* a recent one of the same length was kept.
C33_Witness ==
    /\ Pruned
    /\ fnOutput.calls[1].pruned
    /\ LET before == ConversationOf(fnInput)
           after == fnOutput.calls[1].messages
       IN  /\ Len(before[3].content[1].content) = 300
           /\ Len(after[3].content[1].content) = 224
           /\ after[3].content[1].id = before[3].content[1].id
           /\ Len(after[Len(after)].content[1].content) = 300
           /\ Len(after[Len(after) - 7].content[1].content) = 300

\* C37: pruneMessages is idempotent: a second application leaves the
\* messages exactly as after the first application and returns false.
C37_PruneIdempotent ==
    (Pruned /\ Len(fnOutput.calls) = 2) =>
        /\ fnOutput.calls[2].messages = fnOutput.calls[1].messages
        /\ ~fnOutput.calls[2].pruned

\* ---------------------------------------------------------------------
\* Claims about the conversations sent, checked under SpecCodegen
\* ---------------------------------------------------------------------

\* The turns alternate between user and assistant, from a user turn on.
Alternates(msgs) ==
    /\ msgs # <<>>
    /\ msgs[1].role = "user"
    /\ \A k \in 1..(Len(msgs) - 1) : msgs[k].role # msgs[k + 1].role

\* C35: in the conversations built by explore and by codegen the turns
\* strictly alternate between user and assistant, from a user turn on: no
\* request is ever sent whose message list holds two consecutive assistant
\* turns, or two consecutive user turns.
C35_TurnsAlternate ==
    \A k \in 1..Len(calls) : Alternates(calls[k].messages)

\* The responses received to the requests cs.
Received(cs) == { k \in 1..Len(cs) : cs[k].reply # NoResponse }

RECURSIVE SumOf(_, _, _)
SumOf(cs, ks, field) ==
    IF ks = {} THEN 0
    ELSE LET k == CHOOSE q \in ks : TRUE
         IN  cs[k].reply.usage[field] + SumOf(cs, ks \ {k}, field)

\* C38: when codegen returns or fails, meta.inputTokens and
\* meta.outputTokens are the sums of the usage of every model response
\* received during the call, a truncated response that was discarded and
\* retried with the larger output budget included.  Stated of the calls that
\* settle within their first attempt, whose responses are those of calls.
C38_TokenAccounting ==
    (cpc \in {"returned", "failed"} /\ cgAttempt = 0) =>
        /\ meta.inputTokens = SumOf(calls, Received(calls), "input_tokens")
        /\ meta.outputTokens = SumOf(calls, Received(calls), "output_tokens")

\* ---------------------------------------------------------------------
\* Claims about the settling of executeInWorker, checked under SpecSandbox
\* ---------------------------------------------------------------------

\* The promise of the execution i of executeInWorker is pending.
Pending(i) == xenv = "browser" /\ settled[i] = "pending"

\* What a step may do to the promise of the execution i.
SettlesOnce(i) ==
    \* settled, it stays as it is
    /\ (xenv = "browser" /\ settled[i] \notin {"none", "pending"}) =>
          settled'[i] = settled[i]
    \* the event that settles it clears the timer, removes the listener and
    \* detaches the iframe
    /\ (Pending(i) /\ settled'[i] \notin {"pending", "libraries"}) =>
          /\ i \notin timeout'
          /\ ~listening'
          /\ iframe' # i
          /\ code'[i] \notin Active
    \* the timer, and the abort signal, settle it if they come first
    /\ (Pending(i) /\ i \in overdue' \ overdue) => settled'[i] = "timeout"
    /\ (Pending(i) /\ ~aborted /\ aborted') => settled'[i] = "abort"
    \* a message settles it only if it comes from its iframe, and a result
    \* or error message from its iframe settles it
    /\ (Pending(i) /\ mailbox # <<>> /\ mailbox' = Tail(mailbox)) =>
          LET msg == Head(mailbox)
          IN  /\ (msg.source # i \/ msg.type \in {"bridge_ready", "log"}) =>
                    settled'[i] = "pending"
              /\ (msg.source = i /\ msg.type \in {"result", "error"}) =>
                    settled'[i] \in {"result", "error", "contract"}

\* C36: executeInWorker settles exactly once under every interleaving of the
\* sandbox's result message, its error message, the timeout and the abort
\* signal: the first of these events decides the outcome, at that moment the
\* timer is cleared, the message listener removed and the iframe detached,
\* no later message, timeout or abort has an effect, and a message whose
\* source is not the sandbox iframe never settles it.
C36_SettlesOnce == [][\A i \in Executions : SettlesOnce(i)]_vars

\* ---------------------------------------------------------------------
\* POST /api/process (the HTTP server wrapping the pipeline)
\* ---------------------------------------------------------------------

\* The form data of a request: the fields present and the files uploaded.
Requests ==
    { [of |-> "request", apiKey |-> apiKey, prompt |-> prompt, files |-> n] :
         apiKey \in BOOLEAN, prompt \in BOOLEAN, n \in 0..2 }

\* !apiKey || !prompt, files.length === 0: the request is answered with 400
Invalid(req) == ~req.apiKey \/ ~req.prompt \/ req.files = 0

\* The response: its status and, of a stream, the terminal events sent, the
\* number of phase events sent before them, and whether it is closed.  The
\* phase events of the stream are the events of the run.
Response(status) ==
    [of |-> "response", status |-> status, terminal |-> <<>>, phases |-> 0,
     closed |-> FALSE]

\* send(event, data)
send(out, event, data) ==
    [out EXCEPT !.terminal = Append(@, [event |-> event, data |-> data]),
                !.phases = Len(events)]

\* The stream left open.
close_Omitted(out) == out

\* controller.close()
close(out) == [out EXCEPT !.closed = TRUE]

\* The stream of an accepted request is open.
Streaming == fnOutput.of = "response" /\ fnOutput.status = 200 /\ ~fnOutput.closed

InitServer ==
    /\ InitProgram
    /\ fnInput \in Requests
    /\ fnOutput = NoOutput

\* app.post('/api/process'): the request is validated and answered with 400
\* or with the event stream.
ProcessCall ==
    /\ fnInput.of = "request"
    /\ fnOutput.of = "none"
    /\ fnOutput' = Response(IF Invalid(fnInput) THEN 400 ELSE 200)
    /\ UNCHANGED <<aborted, tvars, statuses, avars, pvars, rvars, xvars, fnInput, bvars>>

\* start(controller): runPipeline is called with no expectation and no signal.
ProcessStart ==
    /\ Streaming
    /\ PipelineCall
    /\ expected' = FALSE

\* runPipeline returned: the complete event is sent and the stream closed.
ProcessCompletes ==
    /\ Streaming
    /\ ppc = "returned"
    /\ fnOutput' =
          close(send(fnOutput, "complete",
                     [buffer |-> run.output, code |-> run.code,
                      report |-> run.report, meta |-> run.meta]))
    /\ UNCHANGED <<aborted, tvars, statuses, avars, pvars, rvars, xvars, fnInput, bvars>>

\* runPipeline threw: the error event is sent with the message of the error,
\* and the stream closed.
ProcessFails ==
    /\ Streaming
    /\ ppc = "failed"
    /\ fnOutput' = close(send(fnOutput, "error", [message |-> error]))
    /\ UNCHANGED <<aborted, tvars, statuses, avars, pvars, rvars, xvars, fnInput, bvars>>

NextServer ==
    \/ ProcessCall
    \/ ProcessStart
    \/ ExploreAnswer
    \/ ExploreResume
    \/ ExploreRethrow
    \/ PipelineExplored
    \/ CodegenAnswer
    \/ CodegenResume
    \/ CodegenResumeRetry
    \/ CodegenRethrow
    \/ PipelineGenerated
    \/ ExecuteSettles
    \/ PipelineRethrow
    \/ FetchRejects
    \/ BackoffElapsed
    \/ ProcessCompletes
    \/ ProcessFails

SpecServer == InitServer /\ [][NextServer]_vars

\* The continuation of `await runPipeline(...)` runs once the pipeline has
\* settled.
SpecServerFair ==
    /\ SpecServer
    /\ WF_vars(ProcessCompletes)
    /\ WF_vars(ProcessFails)

\* ---------------------------------------------------------------------
\* Claims about the server, checked under SpecServer and SpecServerFair
\* ---------------------------------------------------------------------

\* The record rec has the field f, holding v.
Carries(rec, f, v) == f \in DOMAIN rec /\ rec[f] = v

\* The run failed and the server sent its terminal event.
FailureSent ==
    /\ fnOutput.of = "response"
    /\ ppc = "failed"
    /\ fnOutput.terminal # <<>>

\* C34: every terminal failure of a run carries a message plus the last
\* known partial artifact: when runPipeline fails after the exploration
\* report or the generated code has been produced, the failure delivered to
\* the caller, and the error event sent by the server, carry that report and
\* code along with the message.
C34_FailureCarriesArtifacts ==
    FailureSent =>
        /\ Carries(fnOutput.terminal[1].data, "message", error)
        /\ run.report # <<>> =>
              /\ Carries(error, "report", run.report)
              /\ Carries(fnOutput.terminal[1].data, "report", run.report)
        /\ run.code # NoResult =>
              /\ Carries(error, "code", run.code)
              /\ Carries(fnOutput.terminal[1].data, "code", run.code)

\* The stream of an accepted request as it stands: phase events only while
\* the run goes on, then one terminal event, complete if the pipeline
\* returned and error if it threw, with which the stream is closed, and no
\* event after it.
StreamInOrder ==
    (fnOutput.of = "response" /\ fnOutput.status = 200) =>
        /\ Len(fnOutput.terminal) <= 1
        /\ fnOutput.closed <=> Len(fnOutput.terminal) = 1
        /\ fnOutput.terminal # <<>> =>
              /\ fnOutput.phases = Len(events)
              /\ fnOutput.terminal[1].event = "complete" <=> ppc = "returned"
              /\ fnOutput.terminal[1].event = "error" <=> ppc = "failed"

FileNamesUploaded == {"a.xlsx", "b.xlsx"}

\* The FileList objects handed to addFiles.
FileLists ==
    { <<n>> : n \in FileNamesUploaded }
    \cup { <<n, m>> : n \in FileNamesUploaded, m \in FileNamesUploaded }

FileEntry(name, generated) == [name |-> name, generated |-> generated]

\* removeGeneratedByName(name): the first generated entry of that name goes
removeGeneratedByName(fs, name) ==
    LET found == { k \in 1..Len(fs) : fs[k].name = name /\ fs[k].generated }
    IN  IF found = {} THEN fs
        ELSE LET idx == CHOOSE k \in found : \A q \in found : k <= q
             IN  SubSeq(fs, 1, idx - 1) \o SubSeq(fs, idx + 1, Len(fs))

\* state.files.some(f => f.name === file.name && !f.generated)
Uploaded(fs, name) ==
    \E k \in 1..Len(fs) : fs[k].name = name /\ ~fs[k].generated

\* The loop of addFiles from the file at idx on, up to its next await or to
\* its end: the files already uploaded are skipped, the generated entry of
\* the name of the file about to be read is removed.
RECURSIVE addFilesFrom(_, _, _)
addFilesFrom(list, idx, fs) ==
    IF idx > Len(list)
    THEN [files |-> fs, call |-> [pc |-> "done", list |-> list, idx |-> idx]]
    ELSE IF Uploaded(fs, list[idx])
    THEN addFilesFrom(list, idx + 1, fs)
    ELSE [files |-> removeGeneratedByName(fs, list[idx]),
          call |-> [pc |-> "reading", list |-> list, idx |-> idx]]

\* addFiles(fileListObj) is called, by a change of the file input or a drop.
AddFilesCall ==
    \E c \in 1..MaxUploads, list \in FileLists :
        /\ uploads[c].pc = "idle"
        /\ \A b \in 1..(c - 1) : uploads[b].pc # "idle"
        /\ LET next == addFilesFrom(list, 1, stateFiles)
           IN  /\ stateFiles' = next.files
               /\ uploads' = [uploads EXCEPT ![c] = next.call]
        /\ UNCHANGED <<aborted, tvars, statuses, avars, pvars, rvars, xvars, fvars>>

\* file.arrayBuffer() settles in a call of addFiles: the workbook parses and
\* the entry is pushed, or the read or the parse throws and is logged; the
\* loop goes on.
ReadSettles ==
    \E c \in 1..MaxUploads, ok \in BOOLEAN :
        /\ uploads[c].pc = "reading"
        /\ LET call == uploads[c]
               pushed == IF ok
                         THEN Append(stateFiles,
                                     FileEntry(call.list[call.idx], FALSE))
                         ELSE stateFiles
               next == addFilesFrom(call.list, call.idx + 1, pushed)
           IN  /\ stateFiles' = next.files
               /\ uploads' = [uploads EXCEPT ![c] = next.call]
        /\ UNCHANGED <<aborted, tvars, statuses, avars, pvars, rvars, xvars, fvars>>

\* addGeneratedFile(buffer, filename, wb): parsed or not, the entry is pushed.
AddGeneratedFile ==
    \E name \in FileNamesUploaded :
        /\ stateFiles' = Append(removeGeneratedByName(stateFiles, name),
                                FileEntry(name, TRUE))
        /\ UNCHANGED <<aborted, tvars, statuses, avars, pvars, rvars, xvars, fvars,
                       uploads>>

\* removeFile(index)
RemoveFile ==
    \E index \in 1..Len(stateFiles) :
        /\ stateFiles' = SubSeq(stateFiles, 1, index - 1)
                            \o SubSeq(stateFiles, index + 1, Len(stateFiles))
        /\ UNCHANGED <<aborted, tvars, statuses, avars, pvars, rvars, xvars, fvars,
                       uploads>>

NextUploads == AddFilesCall \/ ReadSettles \/ AddGeneratedFile \/ RemoveFile

SpecUploads == Init /\ [][NextUploads]_vars

\* ---------------------------------------------------------------------
\* Claims about the file list, checked under SpecUploads
\* ---------------------------------------------------------------------

\* The entries of state.files with that name and that mark.
Entries(name, generated) ==
    { k \in 1..Len(stateFiles) :
        stateFiles[k].name = name /\ stateFiles[k].generated = generated }

\* C39: after any sequence of uploads, possibly overlapping, and of
\* generated outputs, state.files holds at most one uploaded entry and at
\* most one generated entry per file name.
C39_FileNamesUnique ==
    \A name \in FileNamesUploaded, generated \in BOOLEAN :
        Cardinality(Entries(name, generated)) <= 1

====
